---------------------------- MODULE Spec2Model ----------------------------
(***************************************************************************)
(* A model of the encoder engine of the MIDI Fighter Twister firmware      *)
(* (src/src/encoders.c, src/src/encoders.h): the bit-packed configuration  *)
(* codec over EEPROM, the 14-bit value model, bank switching with          *)
(* cross-bank value transfer, the inbound MIDI feedback dispatcher and the *)
(* per-cycle display scheduler.                                            *)
(***************************************************************************)
EXTENDS Integers, Sequences, FiniteSets, TLC

(***************************************************************************)
(* Program constants.                                                      *)
(***************************************************************************)
PHYSICAL_ENCODERS == 16
BANKED_ENCODERS == 64
BANKED_ENCODER_MASK == 63
VIRTUAL_ENCODERS == 128
NUM_BANKS == 4
ENC_EE_SIZE == 8
EEPROM_PAGE_SIZE == 32
\* set in config.h; the settings area starts after the first EEPROM page
ENC_SETTINGS_START_PAGE == 1
EE_INACTIVE_COLOR_OFFSET == 3
MIDI_CC_HIGH_RESOLUTION_VELOCITY_PREFIX == 88
HIGH_RES_MAX_ENCODER_VALUE == 16383
HIGH_RES_ENCODER_THRESHOLD_VALUE == 128

\* midi_type_t
SEND_NOTE == 0
SEND_CC == 1
SEND_REL_ENC == 2
SEND_NOTE_OFF == 3
\* enc_sw_action_type_t
CC_TOGGLE == 0
ENC_FINE_ADJUST == 1
\* enc_move_type_t
DIRECT == 0
EMULATION == 1
\* enc_control_type_t
ENC_CONTROL_TYPE_ROTARY == 0
ENC_CONTROL_TYPE_SWITCH == 1
ENC_CONTROL_TYPE_DISABLED == 2
ENC_CONTROL_TYPE__MAX == 3

\* "Valid settings values are 0 - 127": a field of 0x80 or above is skipped.
SKIP_SENTINEL == 128
UINT8_MAX == 255

(***************************************************************************)
(* Bounds of the model.                                                    *)
(***************************************************************************)
\* number of seed EEPROM images the device may boot from
NumImages == 2
\* a configuration input differs from a base record in a run of at most this
\* many neighbouring fields
MaxVaried == 2
\* handlers run after encoders_init in a behaviour of the value engine
MaxSteps == 2
\* handlers other than the scheduler run after encoders_init in a behaviour
\* of the display
MaxArrivals == 3
\* handler invocations between the display scheduler's (SpecAnimation)
MaxMessages == 2
MaxBankSteps == 3
MaxSpread == 3

(***************************************************************************)
(* Bit arithmetic on bytes.                                                *)
(***************************************************************************)
Pow2(n) == 2 ^ n

\* (b >> lo) & (2^w - 1)
Bits(b, lo, w) == (b \div Pow2(lo)) % Pow2(w)

\* *p &= ~(mask of w bits at lo); *p |= mask & (v << lo)
SetBits(b, lo, w, v) == b - Bits(b, lo, w) * Pow2(lo) + (v % Pow2(w)) * Pow2(lo)

\* A loop carries its variables in a record st.  No loop state is the empty
\* record: the test only makes the state of one iteration a value before the
\* next iteration starts.
Done(st) == DOMAIN st = {}

MinOf(a, b) == IF a < b THEN a ELSE b
MaxOf(a, b) == IF a > b THEN a ELSE b

Banks == 0 .. NUM_BANKS - 1
Positions == 0 .. PHYSICAL_ENCODERS - 1
BankedIds == 0 .. BANKED_ENCODERS - 1
VirtualIds == 0 .. VIRTUAL_ENCODERS - 1
Byte == 0 .. UINT8_MAX

(***************************************************************************)
(* encoder_config_t: the fields encoders.c reads and writes.               *)
(***************************************************************************)
CfgFields ==
  { "has_detent", "movement", "switch_action_type", "switch_midi_channel",
    "switch_midi_number", "switch_midi_type", "encoder_midi_channel",
    "encoder_midi_number", "encoder_midi_type", "active_color",
    "inactive_color", "detent_color", "indicator_display_type",
    "encoder_shift_midi_channel", "is_super_knob" }

\* a table of encoder_config_t in zero-initialised RAM
ZeroCfg == [f \in CfgFields |-> 0]

(***************************************************************************)
(* EEPROM addressing.                                                      *)
(***************************************************************************)
EepromSize == (ENC_SETTINGS_START_PAGE + 4 * NUM_BANKS) * EEPROM_PAGE_SIZE
EepromAddrs == 0 .. EepromSize - 1

\* get_encoder_config: address of one control's 8-byte record
RecordAddress(bank, encoder) ==
  (ENC_SETTINGS_START_PAGE * 32) + (bank * 128) + (encoder * 8)

\* save_encoder_config: address of the page the record lives in
PageAddress(bank, encoder) ==
  (ENC_SETTINGS_START_PAGE * 32) + (bank * 128) + ((encoder \div 4) * 32)

\* save_encoder_config: index of the page written back
PageIndex_IgnoresBank(bank, encoder) ==
  (ENC_SETTINGS_START_PAGE + (encoder \div 4)) % 256

PageIndex(bank, encoder) ==
  (ENC_SETTINGS_START_PAGE + (4 * bank) + (encoder \div 4)) % 256

\* get_virtual_encoder_id
get_virtual_encoder_id(bank, encoder_id) == (encoder_id + bank * 16) % 256

\* nvm_eeprom_read_buffer(addr, buffer, len)
ReadBuffer(ee, addr, len) == [k \in 0 .. len - 1 |-> ee[addr + k]]

\* nvm_eeprom_load_page_to_buffer + nvm_eeprom_atomic_write_page(page_index)
WritePage(ee, page_index, buf) ==
  LET base == page_index * EEPROM_PAGE_SIZE
      RECURSIVE put(_, _)
      put(f, k) == IF k = EEPROM_PAGE_SIZE THEN f
                   ELSE put([f EXCEPT ![base + k] = buf[k]], k + 1)
  IN  put(ee, 0)

(***************************************************************************)
(* get_encoder_config: expand one 8-byte record.                           *)
(***************************************************************************)
ExpandConfig(buffer) ==
  [ switch_action_type         |-> Bits(buffer[0], 0, 4),
    switch_midi_type           |-> 0,
    switch_midi_channel        |-> Bits(buffer[0], 4, 4),
    switch_midi_number         |-> Bits(buffer[1], 0, 7),
    active_color               |-> buffer[2],
    inactive_color             |-> buffer[3],
    detent_color               |-> Bits(buffer[4], 0, 7),
    has_detent                 |-> Bits(buffer[4], 7, 1),
    indicator_display_type     |-> Bits(buffer[5], 0, 2),
    movement                   |-> Bits(buffer[5], 2, 2),
    encoder_shift_midi_channel |-> Bits(buffer[5], 4, 4),
    encoder_midi_type          |-> Bits(buffer[6], 0, 2),
    encoder_midi_channel       |-> Bits(buffer[6], 4, 4),
    encoder_midi_number        |-> Bits(buffer[7], 0, 7),
    is_super_knob              |-> Bits(buffer[7], 7, 1) ]

get_encoder_config(ee, bank, encoder) ==
  ExpandConfig(ReadBuffer(ee, RecordAddress(bank, encoder), 8))

(***************************************************************************)
(* save_encoder_config: merge the valid fields into the 8 record bytes.    *)
(***************************************************************************)
\* byte 0: switch action (low nibble), switch channel - 1 (high nibble)
PackByte0(b, cfg) ==
  LET b1 == IF cfg.switch_action_type < 128
            THEN SetBits(b, 0, 4, cfg.switch_action_type) ELSE b
  IN  IF cfg.switch_midi_channel < 128
      THEN SetBits(b1, 4, 4, cfg.switch_midi_channel + 15) ELSE b1

\* byte 1: switch MIDI number
PackByte1_NoSkip(b, cfg) == cfg.switch_midi_number

PackByte1(b, cfg) ==
  IF cfg.switch_midi_number < 128 THEN cfg.switch_midi_number ELSE b

\* byte 2: active colour
PackByte2(b, cfg) == IF cfg.active_color < 128 THEN cfg.active_color ELSE b

\* byte 3: inactive colour
PackByte3(b, cfg) == IF cfg.inactive_color < 128 THEN cfg.inactive_color ELSE b

\* byte 4: has-detent flag (bit 7), detent colour (bits 0-6)
PackByte4(b, cfg) ==
  LET b1 == IF cfg.has_detent < 128
            THEN SetBits(b, 7, 1, cfg.has_detent) ELSE b
  IN  IF cfg.detent_color < 128
      THEN SetBits(b1, 0, 7, cfg.detent_color) ELSE b1

\* byte 5: indicator type (bits 0-1), movement (bits 2-3), shift channel (4-7)
PackByte5_ZeroBased(b, cfg) ==
  LET b1 == IF cfg.indicator_display_type < 128
            THEN SetBits(b, 0, 2, cfg.indicator_display_type) ELSE b
      b2 == IF cfg.movement < 128
            THEN SetBits(b1, 2, 2, cfg.movement) ELSE b1
  IN  IF cfg.encoder_shift_midi_channel < 128
      THEN SetBits(b2, 4, 4, cfg.encoder_shift_midi_channel + 15) ELSE b2

PackByte5(b, cfg) ==
  LET b1 == IF cfg.indicator_display_type < 128
            THEN SetBits(b, 0, 2, cfg.indicator_display_type) ELSE b
      b2 == IF cfg.movement < 128
            THEN SetBits(b1, 2, 2, cfg.movement) ELSE b1
  IN  IF cfg.encoder_shift_midi_channel < 128
      THEN SetBits(b2, 4, 4, cfg.encoder_shift_midi_channel) ELSE b2

\* byte 6: encoder MIDI type (bits 0-1), encoder channel - 1 (bits 4-7)
PackByte6(b, cfg) ==
  LET b1 == IF cfg.encoder_midi_type < 128
            THEN SetBits(b, 0, 2, cfg.encoder_midi_type) ELSE b
  IN  IF cfg.encoder_midi_channel < 128
      THEN SetBits(b1, 4, 4, cfg.encoder_midi_channel + 15) ELSE b1

\* byte 7: encoder MIDI number (bits 0-6), super-knob flag (bit 7)
PackByte7(b, cfg) ==
  LET b1 == IF cfg.encoder_midi_number < 128
            THEN SetBits(b, 0, 7, cfg.encoder_midi_number) ELSE b
  IN  IF cfg.is_super_knob < 128
      THEN SetBits(b1, 7, 1, cfg.is_super_knob) ELSE b1

PackRecordByte(k, b, cfg) ==
  CASE k = 0 -> PackByte0(b, cfg)
    [] k = 1 -> PackByte1(b, cfg)
    [] k = 2 -> PackByte2(b, cfg)
    [] k = 3 -> PackByte3(b, cfg)
    [] k = 4 -> PackByte4(b, cfg)
    [] k = 5 -> PackByte5(b, cfg)
    [] k = 6 -> PackByte6(b, cfg)
    [] k = 7 -> PackByte7(b, cfg)

\* the page buffer after the merge: buffer_ptr starts at 8 * (encoder % 4)
MergePage(page_buffer, encoder, cfg) ==
  LET off == 8 * (encoder % 4)
  IN  [k \in 0 .. EEPROM_PAGE_SIZE - 1 |->
         IF k >= off /\ k < off + 8
         THEN PackRecordByte(k - off, page_buffer[k], cfg)
         ELSE page_buffer[k]]

(***************************************************************************)
(* EEPROM images a device may boot from: every control's record as a host  *)
(* configuration tool leaves it.  Image 0 maps every control to its own    *)
(* number; the others share numbers inside a bank and across banks, with   *)
(* channels, kinds, detents and the high-resolution flag varied.           *)
(***************************************************************************)
ImageRecordByte(k, bank, encoder, j) ==
  LET n == 16 * bank + encoder
  IN  CASE j = 0 -> (encoder % 2) + 16 * (1 + 3 * (bank % 2))
        [] j = 1 -> IF k = 0 THEN n ELSE 64 + (encoder \div 2) + k
        [] j = 2 -> 10 + bank + k
        [] j = 3 -> 20 + bank + k
        [] j = 4 -> 128 * ((bank + k) % 2) + 63
        [] j = 5 -> (encoder % 4) + 4 * ((encoder \div 2) % 2) + 16 * (k % 16)
        [] j = 6 -> (IF encoder % 8 = 7 THEN SEND_REL_ENC
                     ELSE IF encoder % 8 = 6 THEN SEND_NOTE ELSE SEND_CC)
                    + 16 * (IF encoder % 4 < 2 THEN 0 ELSE (bank + encoder) % 2)
        [] j = 7 -> (IF k = 0 THEN n ELSE (encoder \div 2) + k)
                    + 128 * ((encoder + k) % 2)

SeedImage(k) ==
  [a \in EepromAddrs |->
     IF a < ENC_SETTINGS_START_PAGE * 32 THEN (a + k) % 256
     ELSE LET r == a - ENC_SETTINGS_START_PAGE * 32
          IN  ImageRecordByte(k, r \div 128, (r % 128) \div 8, r % 8)]

SeedImages == {SeedImage(k) : k \in 0 .. NumImages - 1}

(***************************************************************************)
(* Program state.                                                          *)
(***************************************************************************)
VARIABLES
  eeprom,                    \* non-volatile storage, byte addressed
  encoder_settings,          \* encoder_config_t encoder_settings[64]
  raw_encoder_value,         \* int16_t raw_encoder_value[128]
  indicator_value_buffer,    \* uint8_t [NUM_BANKS][16]
  switch_color_buffer,       \* uint8_t [NUM_BANKS][16]
  switch_animation_buffer,   \* uint8_t [NUM_BANKS][16]
  encoder_animation_buffer,  \* uint8_t [NUM_BANKS][16]
  enc_switch_midi_state,     \* uint16_t [NUM_BANKS][16]
  enc_switch_toggle_state,   \* uint16_t [NUM_BANKS], as sets of bit indices
  switch_color_overide,      \* uint16_t [NUM_BANKS], as sets of bit indices
  shift_mode_switch_state,   \* uint16_t [2], as sets of bit indices; entry 2
  shift_mode_midi_override,  \* is the word in memory that follows the array
  encoder_bank,              \* static int8_t encoder_bank
  display_idx,               \* static idx of update_encoder_display
  shift_idx,                 \* static idx of run_shift_mode
  prevIndicatorValue,        \* static uint8_t [16]
  prevSwitchColorValue,      \* static uint8_t [16]
  prevEncoderAnimationValue, \* static uint8_t [16]
  prevSwAnimationValue,      \* static uint8_t [16]
  cfg_out,                   \* the caller's table filled by get_encoder_config
  midi_out,                  \* MIDI transport calls of the last handler, in order
  display_out,               \* display driver calls of the last handler, in order
  nvm_out,                   \* storage driver calls of the last handler, in order
  last,                      \* the last handler run and its arguments
  booted,                    \* encoders_init has run
  repaint_pending,           \* positions the scheduler has not visited since
                             \* the last bank change
  indicator_changed,         \* positions whose indicator value in the selected
                             \* bank has changed since the scheduler served them
  color_changed,             \* the same for the switch colour
  steps,                     \* handlers run since encoders_init
  phenotype,                 \* encoder_config_t.phenotype of the 64 controls
  prevPhenotype              \* the phenotype last drawn at the 16 positions

configVars == <<eeprom, encoder_settings, cfg_out, nvm_out>>
valueVars == <<raw_encoder_value, indicator_value_buffer, encoder_bank>>
switchVars == <<switch_color_buffer, enc_switch_midi_state,
                enc_switch_toggle_state, switch_color_overide>>
animVars == <<switch_animation_buffer, encoder_animation_buffer>>
shiftVars == <<shift_mode_switch_state, shift_mode_midi_override, shift_idx>>
cacheVars == <<display_idx, prevIndicatorValue, prevSwitchColorValue,
               prevEncoderAnimationValue, prevSwAnimationValue, repaint_pending>>
prevVars == <<cacheVars, indicator_changed, color_changed>>
outVars == <<midi_out, display_out>>
phenoVars == <<phenotype, prevPhenotype>>

\* a handler that writes the value buffers: the positions whose entry of the
\* selected bank differs afterwards are remembered until the scheduler
\* serves them
TrackChanges ==
  /\ indicator_changed' =
       indicator_changed \cup
         {p \in Positions :
            indicator_value_buffer'[encoder_bank'][p]
              # indicator_value_buffer[encoder_bank][p]}
  /\ color_changed' =
       color_changed \cup
         {p \in Positions :
            switch_color_buffer'[encoder_bank'][p]
              # switch_color_buffer[encoder_bank][p]}

vars == <<configVars, valueVars, switchVars, animVars, shiftVars, prevVars,
          outVars, last, booted, steps, phenoVars>>

\* storage driver calls, with the interrupt state they run under
NvmRead(addr, len, irq_off) ==
  [call |-> "read", addr |-> addr, len |-> len, irq_disabled |-> irq_off]
NvmWritePage(page_index, buf, irq_off) ==
  [call |-> "write_page", page |-> page_index, bytes |-> buf,
   irq_disabled |-> irq_off]

(***************************************************************************)
(* Power-up: statics are zero, the EEPROM holds one of the images.         *)
(***************************************************************************)
\* first is what the history variable last starts as
BootState(image, first) ==
  /\ eeprom = image
  /\ encoder_settings = [i \in BankedIds |-> ZeroCfg]
  /\ raw_encoder_value = [v \in VirtualIds |-> 0]
  /\ indicator_value_buffer = [b \in Banks |-> [e \in Positions |-> 0]]
  /\ switch_color_buffer = [b \in Banks |-> [e \in Positions |-> 0]]
  /\ switch_animation_buffer = [b \in Banks |-> [e \in Positions |-> 0]]
  /\ encoder_animation_buffer = [b \in Banks |-> [e \in Positions |-> 0]]
  /\ enc_switch_midi_state = [b \in Banks |-> [e \in Positions |-> 0]]
  /\ enc_switch_toggle_state = [b \in Banks |-> {}]
  /\ switch_color_overide = [b \in Banks |-> {}]
  /\ shift_mode_switch_state = [p \in 0 .. 2 |-> {}]
  /\ shift_mode_midi_override = [p \in 0 .. 2 |-> {}]
  /\ encoder_bank = 0
  /\ display_idx = 0
  /\ shift_idx = 0
  /\ prevIndicatorValue = [e \in Positions |-> 0]
  /\ prevSwitchColorValue = [e \in Positions |-> 0]
  /\ prevEncoderAnimationValue = [e \in Positions |-> 0]
  /\ prevSwAnimationValue = [e \in Positions |-> 0]
  /\ cfg_out = ZeroCfg
  /\ midi_out = << >>
  /\ display_out = << >>
  /\ nvm_out = << >>
  /\ last = first
  /\ booted = FALSE
  /\ repaint_pending = {}
  /\ indicator_changed = {}
  /\ color_changed = {}
  /\ steps = 0
  /\ phenotype = [c \in BankedIds |-> ENC_CONTROL_TYPE_ROTARY]
  /\ prevPhenotype = [e \in Positions |-> ENC_CONTROL_TYPE_ROTARY]

Init == \E image \in SeedImages : BootState(image, [op |-> "boot"])

(***************************************************************************)
(* encoders_init                                                           *)
(***************************************************************************)
\* has_detent decides the start value of a control and of its shifted twin
InitialRawValue(settings, v) ==
  IF settings[v % BANKED_ENCODERS].has_detent # 0 THEN 6300 ELSE 0

encoders_init ==
  /\ ~booted
  /\ LET loaded == [i \in BankedIds |->
                      get_encoder_config(eeprom, i \div 16, i % 16)]
     IN  /\ encoder_settings' = loaded
         /\ raw_encoder_value' =
              [v \in VirtualIds |-> InitialRawValue(loaded, v)]
  /\ switch_color_buffer' =
       [b \in Banks |-> [e \in Positions |->
          eeprom[(ENC_SETTINGS_START_PAGE * 32) + EE_INACTIVE_COLOR_OFFSET
                 + ENC_EE_SIZE * (16 * b + e)]]]
  /\ enc_switch_toggle_state' = [b \in Banks |-> {}]
  /\ nvm_out' =
       [n \in 1 .. BANKED_ENCODERS |->
          NvmRead(RecordAddress((n - 1) \div 16, (n - 1) % 16), 8, TRUE)]
       \o [n \in 1 .. BANKED_ENCODERS |->
             NvmRead((ENC_SETTINGS_START_PAGE * 32) + EE_INACTIVE_COLOR_OFFSET
                     + ENC_EE_SIZE * (n - 1), 1, FALSE)]
  /\ midi_out' = << >>
  /\ display_out' = << >>
  /\ last' = [op |-> "encoders_init"]
  /\ booted' = TRUE
  /\ steps' = 0
  /\ UNCHANGED <<eeprom, cfg_out, indicator_value_buffer, encoder_bank,
                 enc_switch_midi_state, switch_color_overide, animVars,
                 shiftVars, cacheVars, phenoVars>>
  /\ TrackChanges

(***************************************************************************)
(* get_encoder_config(bank, encoder, cfg_ptr), called by the host tooling  *)
(***************************************************************************)
GetEncoderConfig(bank, encoder) ==
  /\ booted
  /\ cfg_out' = get_encoder_config(eeprom, bank, encoder)
  /\ nvm_out' = <<NvmRead(RecordAddress(bank, encoder), 8, TRUE)>>
  /\ midi_out' = << >>
  /\ display_out' = << >>
  /\ last' = [op |-> "get_encoder_config", bank |-> bank, encoder |-> encoder,
              after_save |-> /\ last.op = "save_encoder_config"
                             /\ last.bank = bank
                             /\ last.encoder = encoder,
              cfg |-> IF last.op = "save_encoder_config"
                      THEN last.cfg ELSE ZeroCfg]
  /\ UNCHANGED <<eeprom, encoder_settings, valueVars, switchVars, animVars,
                 shiftVars, prevVars, booted>>

(***************************************************************************)
(* save_encoder_config(bank, encoder, cfg_ptr)                             *)
(***************************************************************************)
SaveEncoderConfig(bank, encoder, cfg) ==
  /\ booted
  /\ LET virtual_encoder_id == get_virtual_encoder_id(bank, encoder)
         page_address == PageAddress(bank, encoder)
         page_buffer == ReadBuffer(eeprom, page_address, EEPROM_PAGE_SIZE)
         merged == MergePage(page_buffer, encoder, cfg)
         page_index == PageIndex(bank, encoder)
     IN  /\ encoder_settings' =
              [encoder_settings EXCEPT ![virtual_encoder_id] = cfg]
         /\ eeprom' = WritePage(eeprom, page_index, merged)
         /\ nvm_out' = <<NvmRead(page_address, EEPROM_PAGE_SIZE, FALSE),
                         NvmWritePage(page_index, merged, TRUE)>>
  /\ midi_out' = << >>
  /\ display_out' = << >>
  /\ last' = [op |-> "save_encoder_config", bank |-> bank,
              encoder |-> encoder, cfg |-> cfg]
  /\ UNCHANGED <<cfg_out, valueVars, switchVars, animVars, shiftVars,
                 prevVars, booted>>

(***************************************************************************)
(* factory_reset_encoder_config.  The DEF_ values are build constants: def *)
(* carries them, the scalar defaults as a record over CfgFields and the    *)
(* per-bank colours as active_colors and inactive_colors.                  *)
(***************************************************************************)
\* enc_default: the defaults, with both MIDI numbers starting at 0
enc_default(def) ==
  [f \in CfgFields |->
     IF f \in {"encoder_midi_number", "switch_midi_number"} THEN 0
     ELSE def[f]]

\* byte k of record i of the template page
TemplateRecordByte(def, i, k) ==
  LET d == enc_default(def)
  IN  CASE k = 0 -> SetBits(Bits(d.switch_action_type, 0, 4), 4, 4,
                            d.switch_midi_channel)
        [] k = 1 -> (d.switch_midi_number + i) % 256
        [] k = 2 -> 127
        [] k = 3 -> 127
        [] k = 4 -> IF Bits(d.detent_color, 7, 1) = 1 THEN d.detent_color
                    ELSE SetBits(d.detent_color, 7, 1, d.has_detent)
        [] k = 5 -> SetBits(SetBits(Bits(d.indicator_display_type, 0, 2),
                                    2, 2, d.movement),
                            4, 4, d.encoder_shift_midi_channel)
        [] k = 6 -> SetBits(Bits(d.encoder_midi_type, 0, 2), 4, 4,
                            d.encoder_midi_channel)
        [] k = 7 -> SetBits(Bits(d.encoder_midi_number + i, 0, 7), 7, 1,
                            d.is_super_knob)

TemplatePage(def) ==
  [k \in 0 .. EEPROM_PAGE_SIZE - 1 |->
     TemplateRecordByte(def, k \div ENC_EE_SIZE, k % ENC_EE_SIZE)]

\* the colours of the bank that page i belongs to, put into the records
\* j = 0 .. 3 of the page at (j * 8) + 2 and (j * 8) + 3
ColourPage(page_buffer, def, i) ==
  LET active_color == def.active_colors[i \div 4]
      inactive_color == def.inactive_colors[i \div 4]
  IN  [page_buffer EXCEPT
         ![2] = active_color, ![3] = inactive_color,
         ![10] = active_color, ![11] = inactive_color,
         ![18] = active_color, ![19] = inactive_color,
         ![26] = active_color, ![27] = inactive_color]

\* the switch and encoder MIDI numbers of the records j = 0 .. 3, at
\* (j * 8) + 1 and (j * 8) + 7, stepped on for the next page
AdvancePage_ByOne(page_buffer) ==
  [page_buffer EXCEPT
     ![1] = (@ + 1) % 256, ![7] = (@ + 1) % 256,
     ![9] = (@ + 1) % 256, ![15] = (@ + 1) % 256,
     ![17] = (@ + 1) % 256, ![23] = (@ + 1) % 256,
     ![25] = (@ + 1) % 256, ![31] = (@ + 1) % 256]

AdvancePage(page_buffer) ==
  [page_buffer EXCEPT
     ![1] = (@ + 4) % 256, ![7] = (@ + 4) % 256,
     ![9] = (@ + 4) % 256, ![15] = (@ + 4) % 256,
     ![17] = (@ + 4) % 256, ![23] = (@ + 4) % 256,
     ![25] = (@ + 4) % 256, ![31] = (@ + 4) % 256]

\* the loop over the 4 * NUM_BANKS pages; st carries the EEPROM, the page
\* buffer and the storage calls made
RECURSIVE FactoryLoop(_, _, _)
FactoryLoop(st, def, i) ==
  IF i = 4 * NUM_BANKS \/ Done(st) THEN st
  ELSE LET coloured == ColourPage(st.page_buffer, def, i)
           page_index == ENC_SETTINGS_START_PAGE + i
       IN  FactoryLoop([ee |-> WritePage(st.ee, page_index, coloured),
                        page_buffer |-> AdvancePage(coloured),
                        calls |-> Append(st.calls,
                                         NvmWritePage(page_index, coloured,
                                                      TRUE))],
                       def, i + 1)

FactoryResetEncoderConfig(def) ==
  /\ booted
  /\ \E st \in {FactoryLoop([ee |-> eeprom, page_buffer |-> TemplatePage(def),
                              calls |-> << >>], def, 0)} :
       /\ eeprom' = st.ee
       /\ nvm_out' = st.calls
  /\ midi_out' = << >>
  /\ display_out' = << >>
  /\ last' = [op |-> "factory_reset_encoder_config", def |-> def]
  /\ UNCHANGED <<encoder_settings, cfg_out, valueVars, switchVars, animVars,
                 shiftVars, prevVars, booted>>

(***************************************************************************)
(* Value model.                                                            *)
(***************************************************************************)
\* scale_encoder_value: int16_t -> uint8_t
scale_encoder_value(value) == IF value < 0 THEN 0 ELSE (value \div 128) % 256

\* encoder_is_in_detent(value)
encoder_is_in_detent(value) ==
  /\ value > ((HIGH_RES_MAX_ENCODER_VALUE + 1) \div 2
              - HIGH_RES_ENCODER_THRESHOLD_VALUE)
  /\ value < ((HIGH_RES_MAX_ENCODER_VALUE + 1) \div 2
              + HIGH_RES_ENCODER_THRESHOLD_VALUE)

\* clamp_encoder_raw_value
clamp_encoder_raw_value_NoFloor(value) ==
  IF value >= HIGH_RES_MAX_ENCODER_VALUE THEN HIGH_RES_MAX_ENCODER_VALUE
  ELSE value

clamp_encoder_raw_value(value) ==
  LET v1 == IF value < 0 THEN 0 ELSE value
  IN  IF v1 >= HIGH_RES_MAX_ENCODER_VALUE THEN HIGH_RES_MAX_ENCODER_VALUE
      ELSE v1

\* conversion of an int result to int16_t (two's complement wrap)
ToInt16(x) == ((x + 32768) % 65536) - 32768

\* process_encoder_input: the tick delta scaled by the control's sensitivity
\* (avr-gcc shifts a negative int arithmetically)
ScaledTicks_EmulatedCoarse(cfg, new_value, switch_held) ==
  IF cfg.switch_action_type = ENC_FINE_ADJUST /\ switch_held
  THEN ToInt16(new_value * Pow2(0))
  ELSE ToInt16(new_value * Pow2(7))

ScaledTicks(cfg, new_value, switch_held) ==
  IF cfg.switch_action_type = ENC_FINE_ADJUST /\ switch_held
  THEN ToInt16(new_value * Pow2(0))
  ELSE IF cfg.movement = DIRECT
       THEN ToInt16(new_value * Pow2(7))
       ELSE ToInt16(new_value * Pow2(4))

(***************************************************************************)
(* MIDI transport calls.                                                   *)
(***************************************************************************)
\* midi_stream_raw_cc(channel, number, value), tagged with the control and
\* the section of the handler that issued it
MidiCc(origin, channel, number, value) ==
  [call |-> "cc", origin |-> origin, channel |-> channel, number |-> number,
   value |-> value]

\* MIDI_Device_Flush
MidiFlush(origin) == [call |-> "flush", origin |-> origin]

\* send_encoder_midi(banked_encoder_idx, value, state)
SendEncoderMidi_PrefixLast(settings, banked_encoder_idx, value) ==
  LET cfg == settings[banked_encoder_idx]
      origin == <<"encoder", banked_encoder_idx>>
  IN  IF cfg.encoder_midi_type = SEND_CC
      THEN <<MidiCc(origin, cfg.encoder_midi_channel, cfg.encoder_midi_number,
                    value \div 128)>>
           \o (IF cfg.is_super_knob # 0
               THEN <<MidiFlush(origin),
                      MidiCc(origin, cfg.encoder_midi_channel,
                             MIDI_CC_HIGH_RESOLUTION_VELOCITY_PREFIX,
                             value % 128)>>
               ELSE << >>)
      ELSE << >>

SendEncoderMidi(settings, banked_encoder_idx, value) ==
  LET cfg == settings[banked_encoder_idx]
      origin == <<"encoder", banked_encoder_idx>>
  IN  IF cfg.encoder_midi_type = SEND_CC
      THEN (IF cfg.is_super_knob # 0
            THEN <<MidiCc(origin, cfg.encoder_midi_channel,
                          MIDI_CC_HIGH_RESOLUTION_VELOCITY_PREFIX,
                          value % 128),
                   MidiFlush(origin)>>
            ELSE << >>)
           \o <<MidiCc(origin, cfg.encoder_midi_channel,
                       cfg.encoder_midi_number, value \div 128)>>
      ELSE << >>

\* send_switch_midi(banked_encoder_idx, value, state)
SendSwitchMidi_Inverted(settings, banked_encoder_idx, value) ==
  IF banked_encoder_idx >= BANKED_ENCODERS THEN << >>
  ELSE <<MidiCc(<<"switch", banked_encoder_idx>>,
                settings[banked_encoder_idx].switch_midi_channel,
                settings[banked_encoder_idx].switch_midi_number, 127 - value)>>

SendSwitchMidi(settings, banked_encoder_idx, value) ==
  IF banked_encoder_idx >= BANKED_ENCODERS THEN << >>
  ELSE <<MidiCc(<<"switch", banked_encoder_idx>>,
                settings[banked_encoder_idx].switch_midi_channel,
                settings[banked_encoder_idx].switch_midi_number, value)>>

\* color_overide_active(bank, encoder)
color_overide_active_Never(overide, bank, encoder) == encoder \in {}

color_overide_active(overide, bank, encoder) == encoder \in overide[bank]

(***************************************************************************)
(* process_encoder_input.  hw is what the hardware scan reports for this   *)
(* cycle: ticks[i] = get_encoder_value(i), and the switch masks down, up   *)
(* and state as sets of positions.                                         *)
(***************************************************************************)
\* one iteration of the loop over the 16 positions; st carries the tables
\* the loop writes
EncoderInputStep(st, i, hw) ==
  LET new_value == hw.ticks[i]
      virtual_encoder_id == get_virtual_encoder_id(encoder_bank, i)
      banked_encoder_id == virtual_encoder_id % (BANKED_ENCODER_MASK + 1)
      cfg == encoder_settings[banked_encoder_id]
      new_raw == clamp_encoder_raw_value(
                   ToInt16(st.raw[virtual_encoder_id]
                           + ScaledTicks(cfg, new_value, i \in hw.state)))
      moved == IF new_value # 0
               THEN [st EXCEPT
                       !.raw[virtual_encoder_id] = new_raw,
                       !.out = @ \o SendEncoderMidi(encoder_settings,
                                                    banked_encoder_id, new_raw),
                       !.ind[encoder_bank][i] = scale_encoder_value(new_raw)]
               ELSE st
      toggled == IF moved.sms[encoder_bank][i] # 0 THEN 0 ELSE 127
  IN  IF /\ (i \in hw.down \/ i \in hw.up)
         /\ cfg.switch_action_type = CC_TOGGLE
         /\ i \in hw.down
      THEN [moved EXCEPT
              !.sms[encoder_bank][i] = toggled,
              !.scb[encoder_bank][i] =
                 IF ~color_overide_active(switch_color_overide, encoder_bank, i)
                 THEN (IF toggled # 0 THEN cfg.active_color
                       ELSE cfg.inactive_color)
                 ELSE @,
              !.out = @ \o SendSwitchMidi(encoder_settings, banked_encoder_id,
                                          toggled)]
      ELSE moved

RECURSIVE EncoderInputLoop(_, _, _)
EncoderInputLoop(st, i, hw) ==
  IF i = 16 \/ Done(st) THEN st
  ELSE EncoderInputLoop(EncoderInputStep(st, i, hw), i + 1, hw)

ProcessEncoderInput(hw) ==
  /\ booted
  /\ \E st \in {EncoderInputLoop(
                 [raw |-> raw_encoder_value, ind |-> indicator_value_buffer,
                  sms |-> enc_switch_midi_state, scb |-> switch_color_buffer,
                  out |-> << >>], 0, hw)} :
         /\ raw_encoder_value' = st.raw
         /\ indicator_value_buffer' = st.ind
         /\ enc_switch_midi_state' = st.sms
         /\ switch_color_buffer' = st.scb
         /\ midi_out' = st.out
  /\ display_out' = << >>
  /\ nvm_out' = << >>
  /\ last' = [op |-> "process_encoder_input", hw |-> hw]
  /\ UNCHANGED <<eeprom, encoder_settings, cfg_out, encoder_bank,
                 enc_switch_toggle_state, switch_color_overide, animVars,
                 shiftVars, cacheVars, booted>>
  /\ TrackChanges

(***************************************************************************)
(* Inbound MIDI feedback.                                                  *)
(***************************************************************************)
\* set outside encoders.c (midi.h / config.h)
global_midi_system_channel == 3
ENCODER_ANIMATION_CHANNEL == 5
SWITCH_ANIMATION_CHANNEL == 2
SHIFT_OFFSET == 0

\* encoder_midi_type_is_relative(encoder): assumes the current bank
encoder_midi_type_is_relative(encoder) ==
  encoder_settings[(encoder + encoder_bank * PHYSICAL_ENCODERS) % 256]
    .encoder_midi_type = SEND_REL_ENC

\* process_indicator_update(idx, value); active is the set of positions for
\* which encoder_is_active() answers true
process_indicator_update_CurrentBankOnly(st, idx, value, active) ==
  LET bank == idx \div 16
      encoder == idx % 16
      raw_value == ToInt16((value * 128) % 65536)
      written == [st EXCEPT !.raw[idx] = raw_value,
                            !.ind[bank][encoder] = value]
  IN  IF bank = encoder_bank
      THEN (IF encoder \notin active \/ encoder_midi_type_is_relative(encoder)
            THEN written ELSE st)
      ELSE st

process_indicator_update_IgnoresActive(st, idx, value, active) ==
  [st EXCEPT !.raw[idx] = ToInt16((value * 128) % 65536),
             !.ind[idx \div 16][idx % 16] = value]

\* process_indicator_update(idx, value)
process_indicator_update(st, idx, value, active) ==
  LET bank == idx \div 16
      encoder == idx % 16
      raw_value == ToInt16((value * 128) % 65536)
      written == [st EXCEPT !.raw[idx] = raw_value,
                            !.ind[bank][encoder] = value]
  IN  IF bank = encoder_bank
      THEN (IF encoder \notin active \/ encoder_midi_type_is_relative(encoder)
            THEN written ELSE st)
      ELSE written

\* process_sw_rgb_update(idx, value)
process_sw_rgb_update(st, idx, value) ==
  LET bank == idx \div 16
      encoder == idx % 16
  IN  IF value = 0
      THEN [st EXCEPT !.ovr[bank] = @ \ {encoder},
                      !.scb[bank][encoder] =
                         encoder_settings[encoder].inactive_color]
      ELSE IF value > 0 /\ value < 126
           THEN [st EXCEPT !.ovr[bank] = @ \cup {encoder},
                           !.scb[bank][encoder] = value]
           ELSE [st EXCEPT !.ovr[bank] = @ \cup {encoder},
                           !.scb[bank][encoder] =
                              encoder_settings[idx].active_color]

\* process_sw_toggle_update(idx, value)
process_sw_toggle_update_StoreValue(st, idx, value) ==
  [st EXCEPT !.sms[idx \div 16][idx % 16] = value]

process_sw_toggle_update(st, idx, value) ==
  [st EXCEPT !.sms[idx \div 16][idx % 16] = IF value # 0 THEN 127 ELSE 0]

\* process_sw_animation_update(idx, value)
process_sw_animation_update(st, idx, value) ==
  [st EXCEPT !.swa[idx \div 16][idx % 16] = value]

\* process_encoder_animation_update(idx, value)
process_encoder_animation_update(st, idx, value) ==
  [st EXCEPT !.ena[idx \div 16][idx % 16] = value]

\* process_element_midi: the body of the loop over the 64 banked controls
ElementMidiStep(st, i, msg, active) ==
  LET cfg == encoder_settings[i]
      output_type == cfg.encoder_midi_type
      st1 == IF /\ cfg.encoder_midi_number = msg.number
                /\ cfg.encoder_midi_channel = msg.channel
                /\ \/ /\ msg.type = SEND_CC
                      /\ output_type \in {SEND_CC, SEND_REL_ENC}
                   \/ /\ msg.type # SEND_CC
                      /\ output_type = SEND_NOTE
             THEN process_indicator_update(st, i, msg.value, active)
             ELSE st
  IN  IF cfg.switch_midi_number = msg.number
      THEN IF cfg.switch_midi_channel = msg.channel
           THEN (IF msg.type = SEND_CC
                 THEN process_sw_toggle_update(
                        process_sw_rgb_update(st1, i, msg.value), i, msg.value)
                 ELSE st1)
           ELSE IF msg.channel = ENCODER_ANIMATION_CHANNEL
                THEN process_encoder_animation_update(st1, i, msg.value)
                ELSE IF msg.channel = SWITCH_ANIMATION_CHANNEL
                     THEN process_sw_animation_update(st1, i, msg.value)
                     ELSE st1
      ELSE st1

RECURSIVE ElementMidiLoop(_, _, _, _)
ElementMidiLoop(st, i, msg, active) ==
  IF i = 64 \/ Done(st) THEN st
  ELSE ElementMidiLoop(ElementMidiStep(st, i, msg, active), i + 1, msg, active)

\* where the linker may have put the two shift arrays: shift_mode_switch_state
\* directly before shift_mode_midi_override, directly after it, or apart
ShiftArrayLayouts == {"state_first", "override_first", "apart"}

\* process_element_midi: the two writes of a shift note whose page is 2, one
\* past the end of both arrays, under a layout
ShiftWritePastEnd(layout, index, value) ==
  LET Written(bits) == IF value # 0 THEN bits \cup {index} ELSE bits \ {index}
  IN  IF layout = "state_first"
      THEN /\ shift_mode_midi_override' =
                [shift_mode_midi_override EXCEPT
                   ![2] = @ \cup {index}, ![0] = Written(@)]
           /\ UNCHANGED shift_mode_switch_state
      ELSE IF layout = "override_first"
      THEN /\ shift_mode_switch_state' =
                [shift_mode_switch_state EXCEPT
                   ![0] = @ \cup {index}, ![2] = Written(@)]
           /\ UNCHANGED shift_mode_midi_override
      ELSE /\ shift_mode_midi_override' =
                [shift_mode_midi_override EXCEPT ![2] = @ \cup {index}]
           /\ shift_mode_switch_state' =
                [shift_mode_switch_state EXCEPT ![2] = Written(@)]

\* process_element_midi: a message on the system channel
SystemChannelMidi(msg) ==
  /\ IF /\ msg.type \in {SEND_NOTE, SEND_NOTE_OFF}
        /\ msg.number >= SHIFT_OFFSET
        /\ msg.number <= SHIFT_OFFSET + 32
     THEN LET number == msg.number - SHIFT_OFFSET
              index == number % 16
              bank == number \div 16
          IN  IF bank < 2
              THEN /\ shift_mode_midi_override' =
                        [shift_mode_midi_override EXCEPT
                           ![bank] = @ \cup {index}]
                   /\ shift_mode_switch_state' =
                        [shift_mode_switch_state EXCEPT
                           ![bank] = IF msg.value # 0 THEN @ \cup {index}
                                     ELSE @ \ {index}]
              ELSE \E layout \in ShiftArrayLayouts :
                     ShiftWritePastEnd(layout, index, msg.value)
     ELSE UNCHANGED <<shift_mode_midi_override, shift_mode_switch_state>>
  /\ UNCHANGED <<raw_encoder_value, indicator_value_buffer,
                 enc_switch_midi_state, switch_color_buffer,
                 switch_color_overide, animVars>>

\* process_element_midi: a message on any other channel
MappedChannelMidi(msg, active) ==
  /\ \E st \in {ElementMidiLoop(
                 [raw |-> raw_encoder_value, ind |-> indicator_value_buffer,
                  sms |-> enc_switch_midi_state, scb |-> switch_color_buffer,
                  ovr |-> switch_color_overide,
                  swa |-> switch_animation_buffer,
                  ena |-> encoder_animation_buffer], 0, msg, active)} :
         /\ raw_encoder_value' = st.raw
         /\ indicator_value_buffer' = st.ind
         /\ enc_switch_midi_state' = st.sms
         /\ switch_color_buffer' = st.scb
         /\ switch_color_overide' = st.ovr
         /\ switch_animation_buffer' = st.swa
         /\ encoder_animation_buffer' = st.ena
  /\ UNCHANGED <<shift_mode_midi_override, shift_mode_switch_state>>

\* no inbound message directly precedes
NoMessage == [channel |-> -1, type |-> -1, number |-> -1, value |-> -1]

\* process_element_midi(channel, type, number, value, state)
ProcessElementMidi(msg, active) ==
  /\ booted
  /\ IF msg.channel = global_midi_system_channel
     THEN SystemChannelMidi(msg)
     ELSE MappedChannelMidi(msg, active)
  /\ midi_out' = << >>
  /\ display_out' = << >>
  /\ nvm_out' = << >>
  /\ last' = [op |-> "process_element_midi", msg |-> msg, active |-> active,
              previous |-> IF last.op = "process_element_midi"
                           THEN last.msg ELSE NoMessage]
  /\ UNCHANGED <<eeprom, encoder_settings, cfg_out, encoder_bank,
                 enc_switch_toggle_state, shift_idx, cacheVars, booted>>
  /\ TrackChanges

(***************************************************************************)
(* Banks.                                                                  *)
(***************************************************************************)
\* encoder_maps_match(this_banked_encoder_id, that_banked_encoder_id)
encoder_maps_match_AllowsRelative(this_banked_encoder_id, that_banked_encoder_id) ==
  LET this == encoder_settings[this_banked_encoder_id]
      that == encoder_settings[that_banked_encoder_id]
  IN  /\ this.encoder_midi_number = that.encoder_midi_number
      /\ this.encoder_midi_type = that.encoder_midi_type

encoder_maps_match(this_banked_encoder_id, that_banked_encoder_id) ==
  LET this == encoder_settings[this_banked_encoder_id]
      that == encoder_settings[that_banked_encoder_id]
  IN  /\ this.encoder_midi_number = that.encoder_midi_number
      /\ this.encoder_midi_type = that.encoder_midi_type
      /\ this.encoder_midi_type # SEND_REL_ENC

\* transfer_this_encoder_value_to_other_banks: the body of the inner loops,
\* for one slot of another bank
TransferStep_AnyChannel(st, current_bank, encoder_id, that_bank, that_encoder) ==
  LET this_banked_encoder_id == current_bank * PHYSICAL_ENCODERS + encoder_id
      that_banked_encoder_id == that_bank * PHYSICAL_ENCODERS + that_encoder
  IN  IF encoder_maps_match(this_banked_encoder_id, that_banked_encoder_id)
      THEN [st EXCEPT
              !.raw[that_banked_encoder_id] = st.raw[this_banked_encoder_id],
              !.ind[that_bank][that_encoder] = st.ind[current_bank][encoder_id]]
      ELSE st

TransferStep_IndicatorOnly(st, current_bank, encoder_id, that_bank, that_encoder) ==
  LET this_banked_encoder_id == current_bank * PHYSICAL_ENCODERS + encoder_id
      that_banked_encoder_id == that_bank * PHYSICAL_ENCODERS + that_encoder
  IN  IF /\ encoder_maps_match(this_banked_encoder_id, that_banked_encoder_id)
         /\ encoder_settings[this_banked_encoder_id].encoder_midi_channel
              = encoder_settings[that_banked_encoder_id].encoder_midi_channel
      THEN [st EXCEPT
              !.ind[that_bank][that_encoder] = st.ind[current_bank][encoder_id]]
      ELSE st

TransferStep(st, current_bank, encoder_id, that_bank, that_encoder) ==
  LET this_banked_encoder_id == current_bank * PHYSICAL_ENCODERS + encoder_id
      that_banked_encoder_id == that_bank * PHYSICAL_ENCODERS + that_encoder
  IN  IF /\ encoder_maps_match(this_banked_encoder_id, that_banked_encoder_id)
         /\ encoder_settings[this_banked_encoder_id].encoder_midi_channel
              = encoder_settings[that_banked_encoder_id].encoder_midi_channel
      THEN [st EXCEPT
              !.raw[that_banked_encoder_id] = st.raw[this_banked_encoder_id],
              !.ind[that_bank][that_encoder] = st.ind[current_bank][encoder_id]]
      ELSE st

\* the two nested loops of transfer_this_encoder_value_to_other_banks:
\* n counts (that_bank, that_encoder) in the order the code visits them
RECURSIVE TransferThisLoop(_, _, _, _)
TransferThisLoop(st, current_bank, encoder_id, n) ==
  IF n = NUM_BANKS * PHYSICAL_ENCODERS \/ Done(st) THEN st
  ELSE LET that_bank == n \div PHYSICAL_ENCODERS
           that_encoder == n % PHYSICAL_ENCODERS
       IN  TransferThisLoop(
             IF that_bank = current_bank THEN st
             ELSE TransferStep(st, current_bank, encoder_id, that_bank,
                               that_encoder),
             current_bank, encoder_id, n + 1)

\* transfer_this_encoder_value_to_other_banks(current_bank, encoder_id)
transfer_this_encoder_value_to_other_banks(st, current_bank, encoder_id) ==
  TransferThisLoop(st, current_bank, encoder_id, 0)

RECURSIVE TransferLoop(_, _, _)
TransferLoop(st, current_bank, i) ==
  IF i = PHYSICAL_ENCODERS \/ Done(st) THEN st
  ELSE TransferLoop(
         transfer_this_encoder_value_to_other_banks(st, current_bank, i),
         current_bank, i + 1)

\* transfer_encoder_values_to_other_banks(current_bank)
transfer_encoder_values_to_other_banks(current_bank) ==
  TransferLoop([raw |-> raw_encoder_value, ind |-> indicator_value_buffer],
               current_bank, 0)

\* change_encoder_bank(new_bank)
ChangeBankEffect(new_bank) ==
  /\ \E st \in {transfer_encoder_values_to_other_banks(encoder_bank)} :
     LET scaled(b, i) ==
           scale_encoder_value(st.raw[get_virtual_encoder_id(b, i)])
     IN  /\ raw_encoder_value' = st.raw
         /\ indicator_value_buffer' =
              [st.ind EXCEPT
                 ![encoder_bank] = [i \in Positions |-> scaled(encoder_bank, i)],
                 ![new_bank] = [i \in Positions |-> scaled(new_bank, i)]]
  /\ prevIndicatorValue' = [i \in Positions |-> UINT8_MAX]
  /\ prevSwitchColorValue' = [i \in Positions |-> UINT8_MAX]
  /\ repaint_pending' = Positions
  /\ encoder_bank' = new_bank
  /\ midi_out' = << >>
  /\ display_out' = << >>
  /\ nvm_out' = << >>
  /\ UNCHANGED <<eeprom, encoder_settings, cfg_out, switchVars, animVars,
                 shiftVars, display_idx, prevEncoderAnimationValue,
                 prevSwAnimationValue, booted>>
  /\ TrackChanges

ChangeEncoderBank(new_bank) ==
  /\ booted
  /\ ChangeBankEffect(new_bank)
  /\ last' = [op |-> "change_encoder_bank", new_bank |-> new_bank,
              old_bank |-> encoder_bank]

\* current_encoder_bank
current_encoder_bank_Next == (encoder_bank + 1) % NUM_BANKS

current_encoder_bank == encoder_bank

\* refresh_display
RefreshDisplay ==
  /\ booted
  /\ ChangeBankEffect(current_encoder_bank)
  /\ last' = [op |-> "refresh_display", new_bank |-> encoder_bank,
              old_bank |-> encoder_bank]

(***************************************************************************)
(* Display scheduler.                                                      *)
(***************************************************************************)
\* display driver calls
SetEncoderIndicator(idx, value, cfg) ==
  [call |-> "set_encoder_indicator", idx |-> idx, value |-> value,
   has_detent |-> cfg.has_detent, mode |-> cfg.indicator_display_type,
   detent_color |-> cfg.detent_color]

SetEncoderRgb(idx, color) ==
  [call |-> "set_encoder_rgb", idx |-> idx, color |-> color]

RunEncoderAnimation(idx, bank, animation, color) ==
  [call |-> "run_encoder_animation", idx |-> idx, bank |-> bank,
   animation |-> animation, color |-> color]

\* animation_is_switch_rgb
animation_is_switch_rgb(animation_value) ==
  IF animation_value = 0 THEN FALSE
  ELSE animation_value < 49 \/ animation_value = 127

\* animation_is_encoder_indicator
animation_is_encoder_indicator(animation_value) ==
  IF animation_value < 49 THEN FALSE
  ELSE animation_value < 97 \/ animation_value = 127

\* animation_buffer_conflict_exists(encoder_bank, encoder)
animation_buffer_conflict_exists_Never(bank, encoder) == FALSE

animation_buffer_conflict_exists_Always(bank, encoder) == TRUE

animation_buffer_conflict_exists(bank, encoder) ==
  LET this_animation == switch_animation_buffer[bank][encoder]
      that_animation == encoder_animation_buffer[bank][encoder]
  IN  IF this_animation = 0 \/ that_animation = 0 THEN FALSE
      ELSE IF this_animation > 127 \/ that_animation > 127 THEN FALSE
      ELSE IF this_animation < 49 \/ this_animation = 127
           THEN that_animation < 49 \/ that_animation = 127
      ELSE IF this_animation < 97
           THEN that_animation > 48 /\ that_animation < 97
      ELSE FALSE

\* the reset drawn when an animation has just ended
AnimationEndedCalls(prev_animation, idx, cfg) ==
  IF animation_is_switch_rgb(prev_animation)
  THEN <<SetEncoderRgb(idx, switch_color_buffer[encoder_bank][idx])>>
  ELSE IF animation_is_encoder_indicator(prev_animation)
       THEN <<SetEncoderIndicator(
                idx, indicator_value_buffer[encoder_bank][idx], cfg)>>
       ELSE << >>

\* whether update_encoder_display repaints an element: the buffer against
\* the value last painted
NeedsRepaint_Always(currentValue, prevValue) == TRUE

NeedsRepaint_Never(currentValue, prevValue) == currentValue # currentValue

NeedsRepaint(currentValue, prevValue) == currentValue # prevValue

\* update_encoder_display: the position the next invocation serves
NextDisplayIdx_WrapEarly(idx) ==
  IF (idx + 1) % 256 > 14 THEN 0 ELSE (idx + 1) % 256

NextDisplayIdx(idx) == IF (idx + 1) % 256 > 15 THEN 0 ELSE (idx + 1) % 256

\* update_encoder_display
UpdateEncoderDisplay ==
  /\ booted
  /\ LET idx == display_idx
         banked_encoder_idx == idx + encoder_bank * PHYSICAL_ENCODERS
         cfg == encoder_settings[banked_encoder_idx]
         indicatorValue == indicator_value_buffer[encoder_bank][idx]
         colorValue == switch_color_buffer[encoder_bank][idx]
         encAnimation == encoder_animation_buffer[encoder_bank][idx]
         swAnimation == switch_animation_buffer[encoder_bank][idx]
         indicatorCalls ==
           IF NeedsRepaint(indicatorValue, prevIndicatorValue[idx])
           THEN <<SetEncoderIndicator(idx, indicatorValue, cfg)>> ELSE << >>
         rgbCalls ==
           IF NeedsRepaint(colorValue, prevSwitchColorValue[idx])
           THEN <<SetEncoderRgb(idx, colorValue)>> ELSE << >>
         encAnimCalls ==
           IF encAnimation # 0
           THEN <<RunEncoderAnimation(idx, encoder_bank, encAnimation,
                                      colorValue)>>
           ELSE IF prevEncoderAnimationValue[idx] # 0
                THEN AnimationEndedCalls(prevEncoderAnimationValue[idx], idx,
                                         cfg)
                ELSE << >>
         conflict == animation_buffer_conflict_exists(encoder_bank, idx)
         swAnimCalls ==
           IF conflict THEN << >>
           ELSE IF swAnimation # 0
                THEN <<RunEncoderAnimation(idx, encoder_bank, swAnimation,
                                           colorValue)>>
                ELSE IF prevSwAnimationValue[idx] # 0
                     THEN AnimationEndedCalls(prevSwAnimationValue[idx], idx,
                                              cfg)
                     ELSE << >>
     IN  /\ display_out' =
              indicatorCalls \o rgbCalls \o encAnimCalls \o swAnimCalls
         /\ prevIndicatorValue' =
              [prevIndicatorValue EXCEPT ![idx] = indicatorValue]
         /\ prevSwitchColorValue' =
              [prevSwitchColorValue EXCEPT ![idx] = colorValue]
         /\ prevEncoderAnimationValue' =
              [prevEncoderAnimationValue EXCEPT ![idx] = encAnimation]
         /\ prevSwAnimationValue' =
              [prevSwAnimationValue EXCEPT
                 ![idx] = IF conflict THEN @ ELSE swAnimation]
         /\ display_idx' = NextDisplayIdx(idx)
         /\ repaint_pending' = repaint_pending \ {idx}
         /\ indicator_changed' = indicator_changed \ {idx}
         /\ color_changed' = color_changed \ {idx}
  /\ midi_out' = << >>
  /\ nvm_out' = << >>
  /\ last' = [op |-> "update_encoder_display", idx |-> display_idx,
              previous |->
                [indicator |-> prevIndicatorValue[display_idx],
                 color |-> prevSwitchColorValue[display_idx],
                 encoder_animation |-> prevEncoderAnimationValue[display_idx],
                 switch_animation |-> prevSwAnimationValue[display_idx]]]
  /\ UNCHANGED <<eeprom, encoder_settings, cfg_out, valueVars, switchVars,
                 animVars, shiftVars, booted>>

(***************************************************************************)
(* Shift mode.                                                             *)
(***************************************************************************)
\* the display mode run_shift_mode passes to set_encoder_indicator
BAR == 1

\* midi_stream_raw_note(channel, note, state, velocity)
MidiRawNote(origin, channel, number, state, velocity) ==
  [call |-> "raw_note", origin |-> origin, channel |-> channel,
   number |-> number, state |-> state, value |-> velocity]

\* the note number of shift switch i of a page
ShiftNoteNumber_NoPage(page, i) == (SHIFT_OFFSET + i) % 256

ShiftNoteNumber(page, i) == (SHIFT_OFFSET + (i + page * 16)) % 256

\* run_shift_mode: what the loop sends for switch i, if anything
ShiftNotes(page, i, hw) ==
  IF i \in hw.down
  THEN <<MidiRawNote(<<"shift", i>>, global_midi_system_channel,
                     ShiftNoteNumber(page, i), TRUE, 127)>>
  ELSE IF i \in hw.up
       THEN <<MidiRawNote(<<"shift", i>>, global_midi_system_channel,
                          ShiftNoteNumber(page, i), FALSE, 0)>>
       ELSE << >>

RECURSIVE ShiftNotesFrom(_, _, _)
ShiftNotesFrom(page, i, hw) ==
  IF i = 16 THEN << >>
  ELSE ShiftNotes(page, i, hw) \o ShiftNotesFrom(page, i + 1, hw)

\* run_shift_mode: the switch state of the page after the loop
ShiftSwitchState(page, hw) ==
  LET free == Positions \ shift_mode_midi_override[page]
      pressed == hw.down \cap free
      released == (hw.up \ hw.down) \cap free
  IN  (shift_mode_switch_state[page] \cup pressed) \ released

\* run_shift_mode(page)
RunShiftMode(page, hw) ==
  /\ booted
  /\ LET idx == shift_idx
         state == ShiftSwitchState(page, hw)
         shiftCfg == [has_detent |-> 0, indicator_display_type |-> BAR,
                      detent_color |-> 0]
     IN  /\ shift_mode_switch_state' =
              [shift_mode_switch_state EXCEPT ![page] = state]
         /\ midi_out' = ShiftNotesFrom(page, 0, hw)
         /\ display_out' =
              IF idx \in state
              THEN <<SetEncoderRgb(idx, 0),
                     SetEncoderIndicator(idx, 127, shiftCfg)>>
              ELSE <<SetEncoderRgb(idx, 0),
                     SetEncoderIndicator(idx, 0, shiftCfg)>>
         /\ shift_idx' = IF (idx + 1) % 256 > 15 THEN 0 ELSE (idx + 1) % 256
  /\ nvm_out' = << >>
  /\ last' = [op |-> "run_shift_mode", page |-> page, hw |-> hw]
  /\ UNCHANGED <<eeprom, encoder_settings, cfg_out, valueVars, switchVars,
                 animVars, shift_mode_midi_override, prevVars, booted>>

(***************************************************************************)
(* Phenotypes.  encoders.h declares enc_control_type_t and the phenotype   *)
(* field of encoder_config_t; the handlers that use them are not part of   *)
(* encoders.c and are taken from the specification of the firmware.        *)
(***************************************************************************)
\* the colour of the reset frame of a rotary control: neutral, full brightness
NeutralColor == 127

\* the blank bar of a reset frame
BlankBar(idx) ==
  SetEncoderIndicator(idx, 0, [has_detent |-> 0,
                               indicator_display_type |-> BAR,
                               detent_color |-> 0])

\* the reset frame of a phenotype: disabled, blank bar and black RGB;
\* rotary, neutral RGB; switch, blank bar
PhenotypeResetFrame_RgbFirst(idx, type) ==
  IF type = ENC_CONTROL_TYPE_ROTARY THEN <<SetEncoderRgb(idx, NeutralColor)>>
  ELSE <<SetEncoderRgb(idx, 0), BlankBar(idx)>>

PhenotypeResetFrame(idx, type) ==
  IF type = ENC_CONTROL_TYPE_DISABLED
  THEN <<BlankBar(idx), SetEncoderRgb(idx, 0)>>
  ELSE IF type = ENC_CONTROL_TYPE_ROTARY
       THEN <<SetEncoderRgb(idx, NeutralColor)>>
       ELSE <<BlankBar(idx)>>

\* a CC on the control-reconfiguration channel: the phenotype of the
\* addressed control becomes the value modulo the number of phenotypes
ReconfigurePhenotype(c, value) ==
  /\ booted
  /\ phenotype' = [phenotype EXCEPT ![c] = value % ENC_CONTROL_TYPE__MAX]
  /\ midi_out' = << >>
  /\ display_out' = << >>
  /\ nvm_out' = << >>
  /\ last' = [op |-> "reconfigure_phenotype", control |-> c, value |-> value]
  /\ UNCHANGED <<eeprom, encoder_settings, cfg_out, valueVars, switchVars,
                 animVars, shiftVars, prevVars, booted, prevPhenotype>>

\* the display scheduler by phenotype: a phenotype that differs from the one
\* last drawn gets its reset frame once and the previous values of the
\* position are forced to the sentinel; after that a rotary control repaints
\* its indicator on change, a switch its RGB on change, a disabled control
\* nothing
UpdatePhenotypeDisplay ==
  /\ booted
  /\ LET idx == display_idx
         banked_encoder_idx == idx + encoder_bank * PHYSICAL_ENCODERS
         cfg == encoder_settings[banked_encoder_idx]
         type == phenotype[banked_encoder_idx]
         indicatorValue == indicator_value_buffer[encoder_bank][idx]
         colorValue == switch_color_buffer[encoder_bank][idx]
         changed == type # prevPhenotype[idx]
         rotary == type = ENC_CONTROL_TYPE_ROTARY
         switch == type = ENC_CONTROL_TYPE_SWITCH
     IN  /\ display_out' =
              IF changed THEN PhenotypeResetFrame(idx, type)
              ELSE IF rotary /\ NeedsRepaint(indicatorValue,
                                             prevIndicatorValue[idx])
                   THEN <<SetEncoderIndicator(idx, indicatorValue, cfg)>>
              ELSE IF switch /\ NeedsRepaint(colorValue,
                                             prevSwitchColorValue[idx])
                   THEN <<SetEncoderRgb(idx, colorValue)>>
              ELSE << >>
         /\ prevPhenotype' = [prevPhenotype EXCEPT ![idx] = type]
         /\ prevIndicatorValue' =
              [prevIndicatorValue EXCEPT
                 ![idx] = IF changed THEN UINT8_MAX
                          ELSE IF rotary THEN indicatorValue ELSE @]
         /\ prevSwitchColorValue' =
              [prevSwitchColorValue EXCEPT
                 ![idx] = IF changed THEN UINT8_MAX
                          ELSE IF switch THEN colorValue ELSE @]
         /\ display_idx' = NextDisplayIdx(idx)
         /\ repaint_pending' = repaint_pending \ {idx}
         /\ indicator_changed' = indicator_changed \ {idx}
         /\ color_changed' = color_changed \ {idx}
  /\ midi_out' = << >>
  /\ nvm_out' = << >>
  /\ last' = [op |-> "update_encoder_display", idx |-> display_idx,
              previous_phenotype |-> prevPhenotype[display_idx]]
  /\ UNCHANGED <<eeprom, encoder_settings, cfg_out, valueVars, switchVars,
                 animVars, shiftVars, prevEncoderAnimationValue,
                 prevSwAnimationValue, booted, phenotype>>

(***************************************************************************)
(* Configuration records the host tooling may hand to save_encoder_config: *)
(* a base record (all fields at the low end of their range, all at the     *)
(* high end, or all carrying the skip sentinel) with at most MaxVaried     *)
(* fields taken from another base.                                         *)
(***************************************************************************)
FieldLow(f) ==
  IF f \in {"switch_midi_channel", "encoder_midi_channel"} THEN 1 ELSE 0

FieldHigh(f) ==
  CASE f \in {"has_detent", "is_super_knob"} -> 1
    [] f \in {"movement", "indicator_display_type", "encoder_midi_type",
              "switch_midi_type"} -> 3
    [] f \in {"switch_action_type", "encoder_shift_midi_channel"} -> 15
    [] f \in {"switch_midi_channel", "encoder_midi_channel"} -> 16
    [] OTHER -> 127

LowCfg == [f \in CfgFields |-> FieldLow(f)]
HighCfg == [f \in CfgFields |-> FieldHigh(f)]
SkipCfg == [f \in CfgFields |-> SKIP_SENTINEL]
AllOnesCfg == [f \in CfgFields |-> UINT8_MAX]

BaseCfgs == {LowCfg, HighCfg, SkipCfg}

\* the fields in record order; neighbours share a byte of the record
FieldOrder ==
  << "switch_action_type", "switch_midi_channel", "switch_midi_number",
     "active_color", "inactive_color", "has_detent", "detent_color",
     "indicator_display_type", "movement", "encoder_shift_midi_channel",
     "encoder_midi_type", "encoder_midi_channel", "encoder_midi_number",
     "is_super_knob", "switch_midi_type" >>

VariedFieldSets ==
  {{FieldOrder[i] : i \in w[1] .. w[1] + w[2] - 1} :
     w \in {x \in (1 .. Len(FieldOrder)) \X (0 .. MaxVaried) :
              x[1] + x[2] - 1 <= Len(FieldOrder)}}

CfgInputs ==
  {[f \in CfgFields |-> IF f \in S THEN alt[f] ELSE base[f]] :
     base \in BaseCfgs, alt \in BaseCfgs, S \in VariedFieldSets}
  \cup {AllOnesCfg}

\* a record is full when no field carries the skip sentinel
IsFullCfg(cfg) == \A f \in CfgFields : cfg[f] < 128
IsAllSkipCfg(cfg) == \A f \in CfgFields : cfg[f] >= 128

(***************************************************************************)
(* The configuration codec on its own: boot, then the host saves one       *)
(* control's record and reads it back.                                     *)
(***************************************************************************)
CodecSave ==
  /\ last.op = "encoders_init"
  /\ steps' = steps + 1
  /\ UNCHANGED phenoVars
  /\ \E bank \in Banks, encoder \in Positions, cfg \in CfgInputs :
       SaveEncoderConfig(bank, encoder, cfg)

CodecReadBack ==
  /\ last.op = "save_encoder_config"
  /\ steps' = steps + 1
  /\ UNCHANGED phenoVars
  /\ GetEncoderConfig(last.bank, last.encoder)

NextCodec == encoders_init \/ CodecSave \/ CodecReadBack

SpecCodec == Init /\ [][NextCodec]_vars

(***************************************************************************)
(* The value engine: encoder motion, inbound feedback and bank changes,    *)
(* in any order, for MaxSteps handler runs after encoders_init.            *)
(***************************************************************************)
NoTicks == [i \in Positions |-> 0]

\* one encoder turned by d ticks, its switch held or not
MoveInput(p, d, held) ==
  [ticks |-> [NoTicks EXCEPT ![p] = d], down |-> {}, up |-> {},
   state |-> IF held THEN {p} ELSE {}]

\* one switch pressed
PressInput(p) == [ticks |-> NoTicks, down |-> {p}, up |-> {}, state |-> {p}]

\* two encoders turned in the same scan while a switch goes down
BusyInput ==
  [ticks |-> [NoTicks EXCEPT ![0] = 1, ![7] = -3], down |-> {2}, up |-> {},
   state |-> {2}]

\* get_encoder_value returns an int8_t: the largest turns either way, a small
\* turn with the switch held, a small turn of an emulated encoder
ValueHwInputs ==
  {MoveInput(0, 127, FALSE), MoveInput(1, -128, FALSE), MoveInput(1, 3, TRUE),
   MoveInput(2, 3, FALSE), BusyInput}

\* the feedback message a host sends for the mapping of control c
FeedbackFor(c, type, value) ==
  [channel |-> encoder_settings[c].encoder_midi_channel, type |-> type,
   number |-> encoder_settings[c].encoder_midi_number, value |-> value]

\* the high-resolution prefix a host sends ahead of the feedback for control c
PrefixFor(c, value) ==
  [channel |-> encoder_settings[c].encoder_midi_channel, type |-> SEND_CC,
   number |-> MIDI_CC_HIGH_RESOLUTION_VELOCITY_PREFIX, value |-> value]

\* feedback with 7-bit values, with the addressed encoder at rest or turning
ValueFeedback ==
  {<<FeedbackFor(2, SEND_CC, 63), {}>>, <<FeedbackFor(2, SEND_CC, 63), {2}>>,
   <<PrefixFor(2, 65), {}>>, <<FeedbackFor(17, SEND_CC, 127), {}>>}

\* one more handler runs
Tick == steps < MaxSteps /\ steps' = steps + 1 /\ UNCHANGED phenoVars

ValueMove ==
  Tick /\ \E hw \in ValueHwInputs : ProcessEncoderInput(hw)

ValueFeedbackIn ==
  Tick /\ \E m \in ValueFeedback : ProcessElementMidi(m[1], m[2])

ValueBankChange ==
  Tick /\ \E new_bank \in Banks : ChangeEncoderBank(new_bank)

ValueRefresh ==
  Tick /\ RefreshDisplay

NextValue ==
  \/ encoders_init
  \/ ValueMove
  \/ ValueFeedbackIn
  \/ ValueBankChange
  \/ ValueRefresh

SpecValue == Init /\ [][NextValue]_vars

(***************************************************************************)
(* The display scheduler running against configuration saves, switch       *)
(* presses, switch feedback and bank changes.  The scheduler runs without  *)
(* limit; MaxArrivals other handlers run, each when the scheduler stands   *)
(* at one of the ArrivalPoints.                                            *)
(***************************************************************************)
ArrivalPoints == {0, 3}

Arrival ==
  /\ steps < MaxArrivals
  /\ steps' = steps + 1
  /\ display_idx \in ArrivalPoints
  /\ UNCHANGED phenoVars

\* a partial update that sets the switch action of a control and tags every
\* other field as not updated
SwitchActionUpdate == [AllOnesCfg EXCEPT !.switch_action_type = CC_TOGGLE]

\* the feedback a host sends for the switch of control c
SwitchFeedbackFor(c, value) ==
  [channel |-> encoder_settings[c].switch_midi_channel, type |-> SEND_CC,
   number |-> encoder_settings[c].switch_midi_number, value |-> value]

\* an animation request for the control whose switch has the number of c's
AnimationFor(c, channel, value) ==
  [channel |-> channel, type |-> SEND_CC,
   number |-> encoder_settings[c].switch_midi_number, value |-> value]

DisplayFeedback ==
  {SwitchFeedbackFor(1, 127), AnimationFor(1, ENCODER_ANIMATION_CHANNEL, 5)}

DisplaySave ==
  Arrival /\ SaveEncoderConfig(0, 0, SwitchActionUpdate)

DisplayPress ==
  Arrival /\ ProcessEncoderInput(PressInput(0))

DisplayFeedbackIn ==
  Arrival /\ \E msg \in DisplayFeedback : ProcessElementMidi(msg, {})

DisplayBankChange ==
  Arrival /\ ChangeEncoderBank(1)

DisplayRefresh ==
  Arrival /\ RefreshDisplay

DisplayUpdate ==
  UpdateEncoderDisplay /\ UNCHANGED <<steps, phenoVars>>

NextDisplay ==
  \/ encoders_init
  \/ DisplaySave
  \/ DisplayPress
  \/ DisplayFeedbackIn
  \/ DisplayBankChange
  \/ DisplayRefresh
  \/ DisplayUpdate

SpecDisplay == Init /\ [][NextDisplay]_vars

(***************************************************************************)
(* The display scheduler running against animation requests and bank       *)
(* changes.  MaxMessages handlers run between the scheduler's invocations, *)
(* each when the scheduler stands at one of the ArrivalPoints.             *)
(***************************************************************************)
\* an animation of the switch class, one of the indicator class, and a value
\* that is neither off nor an animation
SwitchClassId == 5
IndicatorClassId == 60
UnknownAnimationId == 100

MessageArrival ==
  /\ steps < MaxMessages
  /\ steps' = steps + 1
  /\ display_idx \in ArrivalPoints
  /\ UNCHANGED phenoVars

AnimationFeedback ==
  {AnimationFor(1, ENCODER_ANIMATION_CHANNEL, v) :
     v \in {0, SwitchClassId, IndicatorClassId, UnknownAnimationId}}
  \cup {AnimationFor(1, SWITCH_ANIMATION_CHANNEL, v) :
          v \in {0, SwitchClassId, IndicatorClassId}}

AnimationIn ==
  MessageArrival /\ \E msg \in AnimationFeedback : ProcessElementMidi(msg, {})

AnimationBankChange ==
  MessageArrival /\ ChangeEncoderBank(1)

AnimationUpdate ==
  UpdateEncoderDisplay /\ UNCHANGED <<steps, phenoVars>>

NextAnimation ==
  \/ encoders_init
  \/ AnimationIn
  \/ AnimationBankChange
  \/ AnimationUpdate

SpecAnimation == Init /\ [][NextAnimation]_vars

(***************************************************************************)
(* Switch feedback and animation requests against controls whose switch    *)
(* channel the host tooling has moved onto the system channel or onto an   *)
(* animation channel.  MaxArrivals handlers run.                           *)
(***************************************************************************)
\* the record of control c with its switch moved to another channel
SwitchChannelUpdate(c, channel) ==
  [encoder_settings[c] EXCEPT !.switch_midi_channel = channel]

SwitchFeedback ==
  {SwitchFeedbackFor(1, v) : v \in {0, 60, 127}}
  \cup {[SwitchFeedbackFor(1, 127) EXCEPT !.type = SEND_NOTE],
        AnimationFor(1, SWITCH_ANIMATION_CHANNEL, SwitchClassId),
        AnimationFor(1, ENCODER_ANIMATION_CHANNEL, IndicatorClassId)}

SwitchSave ==
  /\ Arrival
  /\ \E channel \in {global_midi_system_channel, SWITCH_ANIMATION_CHANNEL} :
       SaveEncoderConfig(0, 1, SwitchChannelUpdate(1, channel))

SwitchFeedbackIn ==
  Arrival /\ \E msg \in SwitchFeedback : ProcessElementMidi(msg, {})

NextSwitch ==
  \/ encoders_init
  \/ SwitchSave
  \/ SwitchFeedbackIn

SpecSwitch == Init /\ [][NextSwitch]_vars

(***************************************************************************)
(* Shift mode: the shift pages run against switch edges and inbound notes  *)
(* on the system channel.  MaxArrivals handlers run.                       *)
(***************************************************************************)
\* one switch released
ReleaseInput(p) == [ticks |-> NoTicks, down |-> {}, up |-> {p}, state |-> {}]

\* two switches pressed while another is released
ChordInput ==
  [ticks |-> NoTicks, down |-> {1, 15}, up |-> {0}, state |-> {1, 15}]

ShiftHwInputs == {PressInput(0), ReleaseInput(0), ChordInput}

\* the pages run_shift_mode is called for
ShiftPages == {0, 1}

\* the note a host sends for a shift switch; a note number addresses page
\* number / 16
ShiftNoteFor(number, on) ==
  [channel |-> global_midi_system_channel,
   type |-> IF on THEN SEND_NOTE ELSE SEND_NOTE_OFF,
   number |-> SHIFT_OFFSET + number, value |-> IF on THEN 127 ELSE 0]

\* notes for switch 0 of the two pages, and the last number the dispatcher
\* accepts
ShiftFeedback ==
  {ShiftNoteFor(0, TRUE), ShiftNoteFor(0, FALSE), ShiftNoteFor(16, TRUE),
   ShiftNoteFor(32, TRUE), ShiftNoteFor(32, FALSE)}

ShiftRun ==
  /\ Arrival
  /\ \E page \in ShiftPages, hw \in ShiftHwInputs : RunShiftMode(page, hw)

ShiftNoteIn ==
  Arrival /\ \E msg \in ShiftFeedback : ProcessElementMidi(msg, {})

NextShift ==
  \/ encoders_init
  \/ ShiftRun
  \/ ShiftNoteIn

SpecShift == Init /\ [][NextShift]_vars

(***************************************************************************)
(* The phenotype-driven scheduler against reconfigurations and switch      *)
(* feedback of control 1.  MaxArrivals handlers run, each when the         *)
(* scheduler stands at one of the ArrivalPoints.                           *)
(***************************************************************************)
\* switch, rotary, and a value above the phenotypes (disabled after the
\* reduction)
ReconfigurationValues ==
  {ENC_CONTROL_TYPE_SWITCH, ENC_CONTROL_TYPE_ROTARY,
   ENC_CONTROL_TYPE__MAX + ENC_CONTROL_TYPE_DISABLED}

PhenotypeReconfigure ==
  /\ steps < MaxArrivals
  /\ steps' = steps + 1
  /\ display_idx \in ArrivalPoints
  /\ \E value \in ReconfigurationValues : ReconfigurePhenotype(1, value)

PhenotypeFeedbackIn ==
  /\ Arrival
  /\ \E value \in {0, 60} :
       ProcessElementMidi(SwitchFeedbackFor(1, value), {})

PhenotypeUpdate ==
  UpdatePhenotypeDisplay /\ UNCHANGED steps

NextPhenotype ==
  \/ encoders_init
  \/ PhenotypeReconfigure
  \/ PhenotypeFeedbackIn
  \/ PhenotypeUpdate

SpecPhenotype == Init /\ [][NextPhenotype]_vars

(***************************************************************************)
(* Factory reset: after boot the host saves a control's record or not,     *)
(* resets the configuration to one of the default tables and reads         *)
(* records back.                                                           *)
(***************************************************************************)
\* default tables within the field ranges: the lowest values with the
\* colours of bank b at b + 1 and b + 5, and the highest values with the
\* colours counted down from 127 and from 100
FactoryDefaults ==
  {[f \in CfgFields \cup {"active_colors", "inactive_colors"} |->
      CASE f = "active_colors" ->
             [b \in Banks |-> IF high THEN 127 - b ELSE b + 1]
        [] f = "inactive_colors" ->
             [b \in Banks |-> IF high THEN 100 - b ELSE b + 5]
        [] f \in {"switch_midi_channel", "encoder_midi_channel"} ->
             IF high THEN 15 ELSE 0
        [] OTHER -> IF high THEN FieldHigh(f) ELSE FieldLow(f)] :
     high \in BOOLEAN}

FactorySave ==
  /\ last.op = "encoders_init"
  /\ steps' = steps + 1
  /\ UNCHANGED phenoVars
  /\ \E bank \in {0, NUM_BANKS - 1} :
       SaveEncoderConfig(bank, PHYSICAL_ENCODERS - 1, HighCfg)

FactoryReset ==
  /\ last.op \in {"encoders_init", "save_encoder_config"}
  /\ steps' = steps + 1
  /\ UNCHANGED phenoVars
  /\ \E def \in FactoryDefaults : FactoryResetEncoderConfig(def)

FactoryReadBack ==
  /\ last.op = "factory_reset_encoder_config"
  /\ steps' = steps + 1
  /\ UNCHANGED phenoVars
  /\ \E bank \in Banks, encoder \in Positions :
       GetEncoderConfig(bank, encoder)

NextFactory ==
  \/ encoders_init
  \/ FactorySave
  \/ FactoryReset
  \/ FactoryReadBack

SpecFactory == Init /\ [][NextFactory]_vars

(***************************************************************************)
(* The value classifiers on their own: clamp_encoder_raw_value and         *)
(* encoder_is_in_detent applied to int16_t values within MaxSpread of the  *)
(* ends of the int16_t range, of the ends of the raw range and of the ends *)
(* of the detent window.                                                   *)
(***************************************************************************)
RangeLandmarks ==
  {-32768, 0,
   (HIGH_RES_MAX_ENCODER_VALUE + 1) \div 2 - HIGH_RES_ENCODER_THRESHOLD_VALUE,
   (HIGH_RES_MAX_ENCODER_VALUE + 1) \div 2,
   (HIGH_RES_MAX_ENCODER_VALUE + 1) \div 2 + HIGH_RES_ENCODER_THRESHOLD_VALUE,
   HIGH_RES_MAX_ENCODER_VALUE, 32767}

RangeInputs ==
  {x \in -32768 .. 32767 :
     \E m \in RangeLandmarks : x >= m - MaxSpread /\ x <= m + MaxSpread}

InitRange ==
  \E image \in SeedImages, x \in RangeInputs :
    BootState(image, [op |-> "input", value |-> x])

\* everything but the history variable
tableVars ==
  <<configVars, valueVars, switchVars, animVars, shiftVars, prevVars,
    outVars, booted, steps, phenoVars>>

RangeClamp ==
  /\ last.op = "input"
  /\ last' = [op |-> "clamp_encoder_raw_value", value |-> last.value,
              result |-> clamp_encoder_raw_value(last.value)]
  /\ UNCHANGED tableVars

\* the function applied to its own result
RangeClampAgain ==
  /\ last.op = "clamp_encoder_raw_value"
  /\ "first" \notin DOMAIN last
  /\ last' = [op |-> "clamp_encoder_raw_value", value |-> last.result,
              result |-> clamp_encoder_raw_value(last.result),
              first |-> last.value]
  /\ UNCHANGED tableVars

RangeDetent ==
  /\ last.op = "input"
  /\ last' = [op |-> "encoder_is_in_detent", value |-> last.value,
              result |-> encoder_is_in_detent(last.value)]
  /\ UNCHANGED tableVars

NextRange == RangeClamp \/ RangeClampAgain \/ RangeDetent

SpecRange == InitRange /\ [][NextRange]_vars

(***************************************************************************)
(* Encoder input on its own: turns of every sensitivity, switch edges and  *)
(* switch feedback, MaxArrivals handler runs in bank 0.                    *)
(***************************************************************************)
\* a switch pressed while its encoder turns one tick
PressTurnInput(p) ==
  [ticks |-> [NoTicks EXCEPT ![p] = 1], down |-> {p}, up |-> {},
   state |-> {p}]

\* controls 0 and 2 toggle, 1 and 3 fine-adjust; 0 and 1 move directly, 2
\* and 3 are emulated
InputTurns ==
  {MoveInput(0, 127, FALSE), MoveInput(0, -128, FALSE),
   MoveInput(1, 3, TRUE), MoveInput(1, -128, FALSE), MoveInput(2, 3, TRUE),
   MoveInput(3, -1, TRUE), MoveInput(3, 127, FALSE)}

InputEdges ==
  {PressInput(0), ReleaseInput(0), ChordInput, PressTurnInput(2)}

InputTurn ==
  Arrival /\ \E hw \in InputTurns : ProcessEncoderInput(hw)

InputEdge ==
  Arrival /\ \E hw \in InputEdges : ProcessEncoderInput(hw)

InputFeedbackIn ==
  /\ Arrival
  /\ \E value \in {0, 127} :
       ProcessElementMidi(SwitchFeedbackFor(0, value), {})

NextInput ==
  \/ encoders_init
  \/ InputTurn
  \/ InputEdge
  \/ InputFeedbackIn

SpecInput == Init /\ [][NextInput]_vars

(***************************************************************************)
(* Bank changes against every other handler: encoder input, shift pages,   *)
(* inbound feedback, configuration saves and the display scheduler, for    *)
(* MaxBankSteps handler runs after encoders_init.                          *)
(***************************************************************************)
\* one more handler runs
BankTick ==
  steps < MaxBankSteps /\ steps' = steps + 1 /\ UNCHANGED phenoVars

\* the banks a bank change asks for
RequestedBanks == {1, 2}

BankMove ==
  BankTick /\ ProcessEncoderInput(BusyInput)

BankShift ==
  BankTick /\ RunShiftMode(0, PressInput(0))

BankFeedbackIn ==
  BankTick /\ ProcessElementMidi(FeedbackFor(2, SEND_CC, 63), {})

BankSave ==
  BankTick /\ SaveEncoderConfig(0, 0, SwitchActionUpdate)

BankUpdate ==
  BankTick /\ UpdateEncoderDisplay

BankChange ==
  BankTick /\ \E new_bank \in RequestedBanks : ChangeEncoderBank(new_bank)

BankRefresh ==
  BankTick /\ RefreshDisplay

NextBank ==
  \/ encoders_init
  \/ BankMove
  \/ BankShift
  \/ BankFeedbackIn
  \/ BankSave
  \/ BankUpdate
  \/ BankChange
  \/ BankRefresh

SpecBank == Init /\ [][NextBank]_vars

(***************************************************************************)
(* Inbound feedback: indicator and switch feedback for controls of several *)
(* banks, with the addressed encoders at rest or turning, against a bank   *)
(* change.  MaxArrivals handlers run.                                      *)
(***************************************************************************)
\* indicator feedback for the mappings of controls 2, 7 (a relative encoder)
\* and 17, with the sets of positions encoder_is_active() reports as turning
IndicatorFeedback ==
  {<<FeedbackFor(2, SEND_CC, 63), {}>>,
   <<FeedbackFor(2, SEND_CC, 63), {2, 3}>>,
   <<FeedbackFor(7, SEND_CC, 100), {6, 7}>>,
   <<FeedbackFor(17, SEND_CC, 127), {}>>,
   <<FeedbackFor(17, SEND_CC, 5), {0, 1}>>}

\* switch feedback for a control of the first and of the second bank
ColourFeedback ==
  {SwitchFeedbackFor(c, v) : c \in {1, 17}, v \in {0, 60, 127}}

FeedbackIndicatorIn ==
  Arrival /\ \E m \in IndicatorFeedback : ProcessElementMidi(m[1], m[2])

FeedbackColourIn ==
  Arrival /\ \E msg \in ColourFeedback : ProcessElementMidi(msg, {})

FeedbackBankChange ==
  Arrival /\ ChangeEncoderBank(1)

NextFeedback ==
  \/ encoders_init
  \/ FeedbackIndicatorIn
  \/ FeedbackColourIn
  \/ FeedbackBankChange

SpecFeedback == Init /\ [][NextFeedback]_vars

(***************************************************************************)
(* Repaints: the display scheduler runs without limit against feedback,    *)
(* motion and a bank change that alter the indicator value and the colour  *)
(* of position 0; MaxMessages such handlers run, each when the scheduler   *)
(* stands at one of the ArrivalPoints.                                     *)
(***************************************************************************)
\* indicator and switch feedback for control 0, each with two values
RepaintFeedback ==
  {FeedbackFor(0, SEND_CC, v) : v \in {0, 5}}
  \cup {SwitchFeedbackFor(0, v) : v \in {0, 60}}

RepaintFeedbackIn ==
  MessageArrival /\ \E msg \in RepaintFeedback : ProcessElementMidi(msg, {})

RepaintMove ==
  MessageArrival /\ ProcessEncoderInput(MoveInput(0, 1, FALSE))

RepaintBankChange ==
  MessageArrival /\ ChangeEncoderBank(1)

RepaintUpdate ==
  UpdateEncoderDisplay /\ UNCHANGED <<steps, phenoVars>>

NextRepaint ==
  \/ encoders_init
  \/ RepaintFeedbackIn
  \/ RepaintMove
  \/ RepaintBankChange
  \/ RepaintUpdate

SpecRepaint == Init /\ [][NextRepaint]_vars

(***************************************************************************)
(* Claims about the value engine (checked under SpecValue).                *)
(***************************************************************************)
RunsBankChange(op) == op \in {"change_encoder_bank", "refresh_display"}

\* C1: after encoders_init and any sequence of encoder motions, inbound
\* feedback with 7-bit values and bank changes, every entry of
\* raw_encoder_value lies in 0..16383.
C1_RawValuesInRange ==
  booted =>
    \A v \in VirtualIds :
      raw_encoder_value[v] \in 0 .. HIGH_RES_MAX_ENCODER_VALUE

\* a turn that would take a detented control below the range was clamped, and
\* the bank change that followed carried the clamped value to a detented
\* control of another bank
C1_Witness ==
  /\ RunsBankChange(last.op)
  /\ \E c \in BankedIds, d \in BankedIds :
       /\ c \div PHYSICAL_ENCODERS = last.old_bank
       /\ d \div PHYSICAL_ENCODERS # last.old_bank
       /\ encoder_maps_match(c, d)
       /\ encoder_settings[c].encoder_midi_channel
            = encoder_settings[d].encoder_midi_channel
       /\ encoder_settings[c].has_detent # 0
       /\ encoder_settings[d].has_detent # 0
       /\ raw_encoder_value[c] = 0
       /\ raw_encoder_value[d] = 0

BankOf(c) == c \div PHYSICAL_ENCODERS

\* controls c and d have identical encoder MIDI number, kind and channel, and
\* the kind is not relative-encoder
SameMapping(c, d) ==
  /\ encoder_settings[c].encoder_midi_number
       = encoder_settings[d].encoder_midi_number
  /\ encoder_settings[c].encoder_midi_type = encoder_settings[d].encoder_midi_type
  /\ encoder_settings[c].encoder_midi_channel
       = encoder_settings[d].encoder_midi_channel
  /\ encoder_settings[c].encoder_midi_type # SEND_REL_ENC

\* controls c and d have the same encoder MIDI number and kind but different
\* encoder MIDI channels
DifferOnlyInChannel(c, d) ==
  /\ encoder_settings[c].encoder_midi_number
       = encoder_settings[d].encoder_midi_number
  /\ encoder_settings[c].encoder_midi_type = encoder_settings[d].encoder_midi_type
  /\ encoder_settings[c].encoder_midi_channel
       # encoder_settings[d].encoder_midi_channel

ControlsOfBank(bank) ==
  {bank * PHYSICAL_ENCODERS + i : i \in Positions}

\* c is the highest-positioned control of the bank being left that carries
\* its mapping
LastOfItsMapping(c, bank) ==
  /\ BankOf(c) = bank
  /\ \A s \in ControlsOfBank(bank) : s > c => ~SameMapping(s, c)

\* a control of the bank being left carries the mapping of x, which lies in
\* another bank
HasSourceIn(x, bank) ==
  /\ BankOf(x) # bank
  /\ \E s \in ControlsOfBank(bank) : SameMapping(s, x)

\* C6, as the specification states it: any two controls in different banks
\* with identical encoder MIDI number, kind and channel (kind not
\* relative-encoder) hold the same raw value after change_encoder_bank.
C6_MatchingControlsConverge ==
  [][RunsBankChange(last'.op) =>
       \A c \in BankedIds, d \in BankedIds :
         (c < d /\ BankOf(c) # BankOf(d) /\ SameMapping(c, d))
           => raw_encoder_value'[c] = raw_encoder_value'[d]]_vars

\* C6, amended: a control of another bank holds, after change_encoder_bank,
\* the raw value of the highest-positioned control of the bank being left
\* that has identical encoder MIDI number, kind and channel (kind not
\* relative-encoder).
C6_LastSourceReachesTargets ==
  [][RunsBankChange(last'.op) =>
       \A c \in ControlsOfBank(encoder_bank), d \in BankedIds :
         (/\ BankOf(d) # encoder_bank
          /\ SameMapping(c, d)
          /\ LastOfItsMapping(c, encoder_bank))
           => raw_encoder_value'[c] = raw_encoder_value'[d]]_vars

\* a bank change has carried a value that only a turn of the source produces
C6_Witness ==
  /\ RunsBankChange(last.op)
  /\ \E c \in ControlsOfBank(last.old_bank), d \in BankedIds :
       /\ BankOf(d) # last.old_bank
       /\ SameMapping(c, d)
       /\ LastOfItsMapping(c, last.old_bank)
       /\ raw_encoder_value[c] = raw_encoder_value[d]
       /\ raw_encoder_value[c] % HIGH_RES_ENCODER_THRESHOLD_VALUE # 0
       /\ raw_encoder_value[c] # 6300

\* C7, as the specification states it: two controls in different banks with
\* the same encoder MIDI number and kind but different channels, whose raw
\* values differ before change_encoder_bank, still differ after it.
C7_ChannelsNeverConverge ==
  [][RunsBankChange(last'.op) =>
       \A c \in BankedIds, d \in BankedIds :
         (/\ c < d
          /\ BankOf(c) # BankOf(d)
          /\ DifferOnlyInChannel(c, d)
          /\ raw_encoder_value[c] # raw_encoder_value[d])
           => raw_encoder_value'[c] # raw_encoder_value'[d]]_vars

\* C7, amended: two controls in different banks with the same encoder MIDI
\* number and kind but different channels, whose raw values differ before
\* change_encoder_bank, still differ after it when the bank being left has
\* no control with the number, kind and channel of one of them that lies in
\* another bank.
C7_ChannelsConvergeOnlyViaThird ==
  [][RunsBankChange(last'.op) =>
       \A c \in BankedIds, d \in BankedIds :
         (/\ c < d
          /\ BankOf(c) # BankOf(d)
          /\ DifferOnlyInChannel(c, d)
          /\ ~HasSourceIn(c, encoder_bank)
          /\ ~HasSourceIn(d, encoder_bank)
          /\ raw_encoder_value[c] # raw_encoder_value[d])
           => raw_encoder_value'[c] # raw_encoder_value'[d]]_vars

\* a bank change has run over two such controls, one of them in the bank
\* being left and of a kind that transfers
C7_Witness ==
  /\ RunsBankChange(last.op)
  /\ \E c \in ControlsOfBank(last.old_bank), d \in BankedIds :
       /\ BankOf(d) # last.old_bank
       /\ DifferOnlyInChannel(c, d)
       /\ encoder_settings[c].encoder_midi_type # SEND_REL_ENC
       /\ ~HasSourceIn(d, last.old_bank)
       /\ raw_encoder_value[c] # raw_encoder_value[d]

\* C8, as the specification states it: an inbound CC with the prefix number
\* 0x58 and value l on a rotary control's feedback channel, directly followed
\* by an inbound CC with the control's encoder number and value h, sets the
\* control's raw value to (h << 7) | l.
C8_PrefixedFeedbackSetsFullValue ==
  (/\ last.op = "process_element_midi"
   /\ last.msg.type = SEND_CC
   /\ last.previous.type = SEND_CC
   /\ last.previous.number = MIDI_CC_HIGH_RESOLUTION_VELOCITY_PREFIX
   /\ last.previous.channel = last.msg.channel)
    => \A c \in BankedIds :
         (/\ encoder_settings[c].encoder_midi_type = SEND_CC
          /\ encoder_settings[c].encoder_midi_channel = last.msg.channel
          /\ encoder_settings[c].encoder_midi_number = last.msg.number
          /\ (BankOf(c) # encoder_bank \/ c % PHYSICAL_ENCODERS \notin last.active))
           => raw_encoder_value[c]
                = last.msg.value * HIGH_RES_ENCODER_THRESHOLD_VALUE
                  + last.previous.value

\* the control's messages among those the last handler sent, in order
SentFor(origin) == SelectSeq(midi_out, LAMBDA m : m.origin = origin)

\* C9: when a rotary control of kind CC moves, send_encoder_midi emits for it,
\* with high-resolution mode enabled, a CC with number 0x58 and value
\* raw & 0x7F on the control's channel, a flush, then a CC with the control's
\* number and value raw >> 7, in this order; with the mode disabled only the
\* last; and (high << 7) | low is the raw value.
C9_HighResolutionSendOrder ==
  last.op = "process_encoder_input" =>
    \A i \in Positions :
      LET id == get_virtual_encoder_id(encoder_bank, i)
          cfg == encoder_settings[id]
          raw == raw_encoder_value[id]
          origin == <<"encoder", id>>
          low == raw % 128
          high == raw \div 128
          primary == MidiCc(origin, cfg.encoder_midi_channel,
                            cfg.encoder_midi_number, high)
      IN  (last.hw.ticks[i] # 0 /\ cfg.encoder_midi_type = SEND_CC)
            => /\ SentFor(origin) =
                    IF cfg.is_super_knob # 0
                    THEN <<MidiCc(origin, cfg.encoder_midi_channel,
                                  MIDI_CC_HIGH_RESOLUTION_VELOCITY_PREFIX, low),
                           MidiFlush(origin), primary>>
                    ELSE <<primary>>
               /\ high * 128 + low = raw
               /\ high \in 0 .. 127

\* a high-resolution control sent a value with a nonzero low part, in a scan
\* in which a switch sent a message too
C9_Witness ==
  /\ last.op = "process_encoder_input"
  /\ \E i \in Positions :
       LET id == get_virtual_encoder_id(encoder_bank, i)
       IN  /\ last.hw.ticks[i] # 0
           /\ encoder_settings[id].encoder_midi_type = SEND_CC
           /\ encoder_settings[id].is_super_knob # 0
           /\ raw_encoder_value[id] % 128 # 0
           /\ Len(SentFor(<<"encoder", id>>)) = 3
  /\ \E s \in 1 .. Len(midi_out) : midi_out[s].origin[1] = "switch"

\* C34: in every state reachable after encoders_init through motions,
\* inbound feedback and bank changes, for every bank b and position e the
\* indicator entry is the 7-bit projection of the stored value:
\* indicator_value_buffer[b][e] = raw_encoder_value[16*b + e] >> 7.
C34_IndicatorIsProjectionOfRaw ==
  booted =>
    \A b \in Banks, e \in Positions :
      indicator_value_buffer[b][e] =
        raw_encoder_value[PHYSICAL_ENCODERS * b + e] \div 128

(***************************************************************************)
(* Claims about the display scheduler (checked under SpecDisplay).         *)
(***************************************************************************)
\* C10: after change_encoder_bank(b) or refresh_display, the first
\* update_encoder_display invocation that reaches a position issues a
\* set_encoder_indicator and a set_encoder_rgb call for it, carrying the
\* current bank's indicator value and colour, so that 16 invocations repaint
\* every position.
C10_BankChangeRepaintsEveryPosition ==
  [][(last'.op = "update_encoder_display" /\ display_idx \in repaint_pending)
       => LET idx == display_idx
              cfg == encoder_settings[idx + encoder_bank * PHYSICAL_ENCODERS]
              indicator == SetEncoderIndicator(
                             idx, indicator_value_buffer[encoder_bank][idx],
                             cfg)
              rgb == SetEncoderRgb(idx,
                                   switch_color_buffer[encoder_bank][idx])
          IN  /\ \E k \in 1 .. Len(display_out') : display_out'[k] = indicator
              /\ \E k \in 1 .. Len(display_out') : display_out'[k] = rgb
     ]_vars

(***************************************************************************)
(* Claims about repaints and animations (checked under SpecAnimation).     *)
(***************************************************************************)
\* C12: each invocation of update_encoder_display serves exactly one
\* position (its calls name that position and only that position's caches
\* change), successive invocations serve 0, 1, ..., 15, 0, ..., and no other
\* handler moves the scheduler's position.
C12_RoundRobin ==
  [][IF last'.op = "update_encoder_display"
     THEN /\ last'.idx = display_idx
          /\ display_idx' = (display_idx + 1) % PHYSICAL_ENCODERS
          /\ \A k \in 1 .. Len(display_out') :
                display_out'[k].idx = display_idx
          /\ \A p \in Positions \ {display_idx} :
                /\ prevIndicatorValue'[p] = prevIndicatorValue[p]
                /\ prevSwitchColorValue'[p] = prevSwitchColorValue[p]
                /\ prevEncoderAnimationValue'[p] = prevEncoderAnimationValue[p]
                /\ prevSwAnimationValue'[p] = prevSwAnimationValue[p]
     ELSE display_idx' = display_idx
    ]_vars

\* the scheduler has wrapped from position 15 to position 0 after a bank
\* change and an inbound message, painting position 15
C12_Witness ==
  /\ last.op = "update_encoder_display"
  /\ last.idx = PHYSICAL_ENCODERS - 1
  /\ display_idx = 0
  /\ display_out # << >>
  /\ encoder_bank = 1
  /\ steps >= 2

\* the calls of one kind among those the last handler issued, and among
\* those the handler being taken issues
Issued(kind) == SelectSeq(display_out, LAMBDA c : c.call = kind)
IssuedNext(kind) == SelectSeq(display_out', LAMBDA c : c.call = kind)

\* C11 (as stated): update_encoder_display issues set_encoder_indicator for
\* a position only if the position's indicator value differs from the value
\* last repainted there, and set_encoder_rgb only if the colour differs from
\* the colour last repainted; an invocation that finds both unchanged
\* issues no indicator or RGB repaint call.
C11_RepaintOnlyOnChange ==
  [][last'.op = "update_encoder_display"
       => LET idx == display_idx
          IN  /\ IssuedNext("set_encoder_indicator") # << >>
                   => indicator_value_buffer[encoder_bank][idx]
                        # prevIndicatorValue[idx]
              /\ IssuedNext("set_encoder_rgb") # << >>
                   => switch_color_buffer[encoder_bank][idx]
                        # prevSwitchColorValue[idx]
     ]_vars

\* an animation held in one of the two buffers of the current bank has ended
\* at position idx and was of the class that owns the indicator ring
\* (49..96), respectively the RGB segment (1..48, 127)
IndicatorAnimationEnded(idx) ==
  \/ /\ encoder_animation_buffer[encoder_bank][idx] = 0
     /\ prevEncoderAnimationValue[idx] \in 49 .. 96
  \/ /\ switch_animation_buffer[encoder_bank][idx] = 0
     /\ prevSwAnimationValue[idx] \in 49 .. 96

RgbAnimationEnded(idx) ==
  \/ /\ encoder_animation_buffer[encoder_bank][idx] = 0
     /\ prevEncoderAnimationValue[idx] \in (1 .. 48) \cup {127}
  \/ /\ switch_animation_buffer[encoder_bank][idx] = 0
     /\ prevSwAnimationValue[idx] \in (1 .. 48) \cup {127}

\* C11 (amended): update_encoder_display issues set_encoder_indicator for a
\* position only if the indicator value differs from the value recorded at
\* the position's previous invocation or an indicator-class animation has
\* just ended there, and set_encoder_rgb only if the colour differs from
\* the recorded colour or a switch-class animation has just ended there; an
\* invocation that finds both unchanged and no animation ended issues no
\* indicator or RGB repaint call.
C11_RepaintOnChangeOrAnimationEnd ==
  [][last'.op = "update_encoder_display"
       => LET idx == display_idx
          IN  /\ IssuedNext("set_encoder_indicator") # << >>
                   => \/ indicator_value_buffer[encoder_bank][idx]
                           # prevIndicatorValue[idx]
                      \/ IndicatorAnimationEnded(idx)
              /\ IssuedNext("set_encoder_rgb") # << >>
                   => \/ switch_color_buffer[encoder_bank][idx]
                           # prevSwitchColorValue[idx]
                      \/ RgbAnimationEnded(idx)
     ]_vars

\* an invocation has found indicator and colour unchanged and an ended
\* switch-class animation, and has issued the one RGB call that resets it
C11_Witness ==
  /\ last.op = "update_encoder_display"
  /\ last.previous.indicator = prevIndicatorValue[last.idx]
  /\ last.previous.color = prevSwitchColorValue[last.idx]
  /\ last.previous.encoder_animation = SwitchClassId
  /\ prevEncoderAnimationValue[last.idx] = 0
  /\ display_out = <<SetEncoderRgb(last.idx, prevSwitchColorValue[last.idx])>>

\* the classes of animation ids
SwitchClass == (1 .. 48) \cup {127}
IndicatorClass == 49 .. 96

\* both animation buffers of the current bank hold ids of one class at idx
SameClassPair(idx) ==
  LET sw == switch_animation_buffer[encoder_bank][idx]
      enc == encoder_animation_buffer[encoder_bank][idx]
  IN  \/ sw \in SwitchClass /\ enc \in SwitchClass
      \/ sw \in IndicatorClass /\ enc \in IndicatorClass

\* C13 (as stated): when both animation buffers of the current bank hold
\* ids of the same class for a position, update_encoder_display calls
\* run_encoder_animation for neither of them.
C13_ConflictRunsNeither ==
  [][(last'.op = "update_encoder_display" /\ SameClassPair(display_idx))
       => IssuedNext("run_encoder_animation") = << >>
     ]_vars

\* C13 (amended): when both animation buffers of the current bank hold ids
\* of the same class for a position, update_encoder_display calls
\* run_encoder_animation exactly once, with the id of the encoder-animation
\* buffer; the switch-animation buffer's id is not run and its
\* previous-animation cache keeps its value.
C13_ConflictRunsEncoderAnimation ==
  [][(last'.op = "update_encoder_display" /\ SameClassPair(display_idx))
       => LET idx == display_idx
          IN  /\ IssuedNext("run_encoder_animation") =
                   <<RunEncoderAnimation(
                       idx, encoder_bank,
                       encoder_animation_buffer[encoder_bank][idx],
                       switch_color_buffer[encoder_bank][idx])>>
              /\ prevSwAnimationValue'[idx] = prevSwAnimationValue[idx]
              /\ prevEncoderAnimationValue'[idx] =
                   encoder_animation_buffer[encoder_bank][idx]
     ]_vars

\* the scheduler has served a position whose two buffers hold ids of the
\* indicator class
C13_Witness ==
  /\ last.op = "update_encoder_display"
  /\ switch_animation_buffer[encoder_bank][last.idx] = IndicatorClassId
  /\ encoder_animation_buffer[encoder_bank][last.idx] = IndicatorClassId
  /\ Len(Issued("run_encoder_animation")) = 1
  /\ prevSwAnimationValue[last.idx] = 0

\* C14 (as stated): with switch-class id 5 and indicator-class id 60 in the
\* two animation buffers of a position, update_encoder_display issues no
\* run_encoder_animation call and both previous-animation caches keep their
\* value.
MixedClassPair(idx) ==
  {switch_animation_buffer[encoder_bank][idx],
   encoder_animation_buffer[encoder_bank][idx]}
    = {SwitchClassId, IndicatorClassId}

C14_MixedPairRunsNeither ==
  [][(last'.op = "update_encoder_display" /\ MixedClassPair(display_idx))
       => /\ IssuedNext("run_encoder_animation") = << >>
          /\ prevSwAnimationValue'[display_idx]
               = prevSwAnimationValue[display_idx]
          /\ prevEncoderAnimationValue'[display_idx]
               = prevEncoderAnimationValue[display_idx]
     ]_vars

\* C14 (amended): with switch-class id 5 and indicator-class id 60 in the
\* two animation buffers of a position, update_encoder_display issues two
\* run_encoder_animation calls, first for the id of the encoder-animation
\* buffer and then for the id of the switch-animation buffer, and each
\* previous-animation cache takes the id of its buffer.
C14_MixedPairRunsBoth ==
  [][(last'.op = "update_encoder_display" /\ MixedClassPair(display_idx))
       => LET idx == display_idx
              color == switch_color_buffer[encoder_bank][idx]
              sw == switch_animation_buffer[encoder_bank][idx]
              enc == encoder_animation_buffer[encoder_bank][idx]
          IN  /\ IssuedNext("run_encoder_animation") =
                   <<RunEncoderAnimation(idx, encoder_bank, enc, color),
                     RunEncoderAnimation(idx, encoder_bank, sw, color)>>
              /\ prevSwAnimationValue'[idx] = sw
              /\ prevEncoderAnimationValue'[idx] = enc
     ]_vars

\* the scheduler has served a position with id 5 in the switch-animation
\* buffer and id 60 in the encoder-animation buffer
C14_Witness ==
  /\ last.op = "update_encoder_display"
  /\ switch_animation_buffer[encoder_bank][last.idx] = SwitchClassId
  /\ encoder_animation_buffer[encoder_bank][last.idx] = IndicatorClassId
  /\ Len(Issued("run_encoder_animation")) = 2
  /\ last.previous.switch_animation = 0
  /\ prevSwAnimationValue[last.idx] = SwitchClassId

\* the values an animation message may carry: off and the animation ids
KnownAnimationValues == {0} \cup SwitchClass \cup IndicatorClass

\* C20: an inbound animation message whose value is not a known animation id
\* leaves both animation buffers unchanged, and run_encoder_animation is
\* never called with such a value.
C20_UnknownAnimationIgnored ==
  [][/\ (/\ last'.op = "process_element_midi"
          /\ last'.msg.channel \in {ENCODER_ANIMATION_CHANNEL,
                                     SWITCH_ANIMATION_CHANNEL}
          /\ last'.msg.value \notin KnownAnimationValues)
         => /\ switch_animation_buffer' = switch_animation_buffer
            /\ encoder_animation_buffer' = encoder_animation_buffer
     /\ \A k \in 1 .. Len(display_out') :
          display_out'[k].call = "run_encoder_animation"
            => display_out'[k].animation \in KnownAnimationValues
    ]_vars

(***************************************************************************)
(* Claims about switch feedback (checked under SpecSwitch).                *)
(***************************************************************************)
\* the controls whose switch mapping has the channel and number of msg
SwitchMatches(msg) ==
  {c \in BankedIds :
     /\ encoder_settings[c].switch_midi_channel = msg.channel
     /\ encoder_settings[c].switch_midi_number = msg.number}

\* control c takes switch feedback v: stored state 127 or 0 and colour
\* override set or cleared, in c's bank
TakesSwitchFeedback(c, v) ==
  LET bank == c \div PHYSICAL_ENCODERS
      encoder == c % PHYSICAL_ENCODERS
  IN  /\ enc_switch_midi_state'[bank][encoder] = (IF v # 0 THEN 127 ELSE 0)
      /\ (encoder \in switch_color_overide'[bank]) <=> (v # 0)

\* C18 (as stated): an inbound CC with value v that matches a control's
\* switch channel and number sets the control's stored switch MIDI state to
\* 127 if v # 0 and to 0 otherwise, and sets the control's colour-override
\* flag if v # 0 and clears it otherwise, in the control's bank.
C18_SwitchFeedbackSetsState ==
  [][(last'.op = "process_element_midi" /\ last'.msg.type = SEND_CC)
       => \A c \in SwitchMatches(last'.msg) :
            TakesSwitchFeedback(c, last'.msg.value)
     ]_vars

\* C18 (amended): the same, for a CC on a channel other than the system
\* channel.
C18_MappedSwitchFeedbackSetsState ==
  [][(/\ last'.op = "process_element_midi"
      /\ last'.msg.type = SEND_CC
      /\ last'.msg.channel # global_midi_system_channel)
       => \A c \in SwitchMatches(last'.msg) :
            TakesSwitchFeedback(c, last'.msg.value)
     ]_vars

\* a switch of bank 2 that feedback had switched on has been switched off
\* by a CC with value 0
C18_Witness ==
  /\ last.op = "process_element_midi"
  /\ last.msg.type = SEND_CC
  /\ last.msg.value = 0
  /\ last.previous = [last.msg EXCEPT !.value = 60]
  /\ \E c \in SwitchMatches(last.msg) :
       /\ c \div PHYSICAL_ENCODERS = 2
       /\ enc_switch_midi_state[2][c % PHYSICAL_ENCODERS] = 0
       /\ c % PHYSICAL_ENCODERS \notin switch_color_overide[2]

\* C19: a message on the switch-animation channel whose number is a
\* control's switch number stores its value in the control's
\* switch_animation_buffer entry, one on the encoder-animation channel in
\* the control's encoder_animation_buffer entry; each leaves the other
\* animation buffer, the stored switch state and the colour buffer of the
\* control unchanged, whatever the control's switch channel is.
C19_AnimationMessagesStored ==
  [][(/\ last'.op = "process_element_midi"
      /\ last'.msg.channel \in {SWITCH_ANIMATION_CHANNEL,
                                 ENCODER_ANIMATION_CHANNEL})
       => \A c \in BankedIds :
            encoder_settings[c].switch_midi_number = last'.msg.number
              => LET bank == c \div PHYSICAL_ENCODERS
                     encoder == c % PHYSICAL_ENCODERS
                     toSwitch == last'.msg.channel = SWITCH_ANIMATION_CHANNEL
                 IN  /\ switch_animation_buffer'[bank][encoder] =
                          (IF toSwitch THEN last'.msg.value
                           ELSE switch_animation_buffer[bank][encoder])
                     /\ encoder_animation_buffer'[bank][encoder] =
                          (IF toSwitch
                           THEN encoder_animation_buffer[bank][encoder]
                           ELSE last'.msg.value)
                     /\ enc_switch_midi_state'[bank][encoder] =
                          enc_switch_midi_state[bank][encoder]
                     /\ switch_color_buffer'[bank][encoder] =
                          switch_color_buffer[bank][encoder]
     ]_vars

(***************************************************************************)
(* Claims about shift mode (checked under SpecShift).                      *)
(***************************************************************************)
\* the handler being taken is an inbound note on the system channel
SystemNoteArrives ==
  /\ last'.op = "process_element_midi"
  /\ last'.msg.channel = global_midi_system_channel
  /\ last'.msg.type \in {SEND_NOTE, SEND_NOTE_OFF}

\* C16: once an inbound system-channel note has addressed shift bit
\* (page p, index i), the override flag of the bit is set and never
\* cleared, and from then on only inbound system-channel notes change bit i
\* of shift_mode_switch_state[p]: no switch edge processed by
\* run_shift_mode does.
C16_OverrideFreezesLocalEdges ==
  [][\A p \in ShiftPages, i \in Positions :
       /\ (SystemNoteArrives /\ last'.msg.number = SHIFT_OFFSET + i + 16 * p)
            => i \in shift_mode_midi_override'[p]
       /\ i \in shift_mode_midi_override[p]
            => /\ i \in shift_mode_midi_override'[p]
               /\ ((i \in shift_mode_switch_state'[p])
                     # (i \in shift_mode_switch_state[p]))
                    => SystemNoteArrives
    ]_vars

\* C30: for every inbound system-channel note the dispatcher accepts as a
\* shift message, the derived page is 0 or 1 and the derived index is in
\* 0..15, so nothing outside shift_mode_switch_state[0..1] and
\* shift_mode_midi_override[0..1] is written.
C30_ShiftNotesStayInPages ==
  [][(/\ SystemNoteArrives
      /\ last'.msg.number >= SHIFT_OFFSET
      /\ last'.msg.number <= SHIFT_OFFSET + 32)
     => /\ (last'.msg.number - SHIFT_OFFSET) \div 16 \in ShiftPages
        /\ (last'.msg.number - SHIFT_OFFSET) % 16 \in Positions
        /\ shift_mode_switch_state'[2] = shift_mode_switch_state[2]
        /\ shift_mode_midi_override'[2] = shift_mode_midi_override[2]]_vars

\* the notes the handler being taken sends with a number
NotesNumbered(number) ==
  SelectSeq(midi_out', LAMBDA n : n.call = "raw_note" /\ n.number = number)

\* C17: in run_shift_mode(p) a switch-down edge on index i emits exactly one
\* note-on with number SHIFT_OFFSET + i + 16 * p on the system channel and
\* a switch-up edge exactly one note-off with that number, overridden or
\* not; when the bit is not overridden, down sets and up clears bit i of
\* page p's switch state.
C17_ShiftEdgesEmitNotes ==
  [][last'.op = "run_shift_mode"
       => LET p == last'.page
              hw == last'.hw
          IN  \A i \in Positions :
                LET number == SHIFT_OFFSET + i + 16 * p
                    free == i \notin shift_mode_midi_override[p]
                IN  /\ i \in hw.down
                         => /\ NotesNumbered(number) =
                                 <<MidiRawNote(<<"shift", i>>,
                                               global_midi_system_channel,
                                               number, TRUE, 127)>>
                            /\ free => i \in shift_mode_switch_state'[p]
                    /\ i \in hw.up
                         => /\ NotesNumbered(number) =
                                 <<MidiRawNote(<<"shift", i>>,
                                               global_midi_system_channel,
                                               number, FALSE, 0)>>
                            /\ free => i \notin shift_mode_switch_state'[p]
     ]_vars

\* page 1 has been run with switches 1 and 15 going down and switch 0 going
\* up, switch 0 overridden and held on by an inbound note: three notes
\* went out, bits 1 and 15 are set and bit 0 stays set
C17_Witness ==
  /\ last.op = "run_shift_mode"
  /\ last.page = 1
  /\ last.hw = ChordInput
  /\ Len(midi_out) = 3
  /\ 0 \in shift_mode_midi_override[1]
  /\ shift_mode_switch_state[1] = {0, 1, 15}

C28_ClampSaturatesAndIsIdempotent ==
  last.op = "clamp_encoder_raw_value" =>
    /\ last.result = MinOf(MaxOf(last.value, 0), 16383)
    /\ "first" \in DOMAIN last => last.result = last.value

\* a value above the range and a value below it were limited, and the
\* second application returned the limit
C28_Witness ==
  /\ last.op = "clamp_encoder_raw_value"
  /\ "first" \in DOMAIN last
  /\ last.first \in {-1, 16384}
  /\ last.result \in {0, 16383}

\* C29: encoder_is_in_detent(raw) is true exactly for 8064 <= raw <= 8320,
\* both ends included, and false for every other raw in 0..16383.
C29_DetentWindowInclusive ==
  (/\ last.op = "encoder_is_in_detent"
   /\ last.value \in 0 .. 16383)
  => (last.result <=> (8064 <= last.value /\ last.value <= 8320))

(***************************************************************************)
(* Claims about encoder input (checked under SpecInput).                   *)
(***************************************************************************)
\* the shift the claim names for a control with record cfg
TickShift(cfg, held) ==
  IF cfg.switch_action_type = ENC_FINE_ADJUST /\ held THEN 0
  ELSE IF cfg.movement = DIRECT THEN 7
  ELSE 4

InInt16(x) == x >= -32768 /\ x <= 32767

SwitchCcs(out, c) ==
  SelectSeq(out, LAMBDA m : m.origin = <<"switch", c>>)

\* C27: for a toggle switch control, a switch-down edge emits exactly one
\* CC, on the control's switch channel and number, carrying the new stored
\* switch state, which is 127 if the stored state was 0 and 0 otherwise; a
\* switch-up edge emits nothing and changes neither the stored state nor
\* the colour buffer.
C27_ToggleOnDownEdgeOnly ==
  [][last'.op = "process_encoder_input" =>
       \A i \in Positions :
         LET c == 16 * encoder_bank + i
             cfg == encoder_settings[c]
             before == enc_switch_midi_state[encoder_bank][i]
             after == enc_switch_midi_state'[encoder_bank][i]
             sent == SwitchCcs(midi_out', c)
         IN  cfg.switch_action_type = CC_TOGGLE =>
               /\ i \in last'.hw.down =>
                    /\ Len(sent) = 1
                    /\ sent[1].call = "cc"
                    /\ sent[1].channel = cfg.switch_midi_channel
                    /\ sent[1].number = cfg.switch_midi_number
                    /\ sent[1].value = after
                    /\ after = (IF before = 0 THEN 127 ELSE 0)
               /\ (i \in last'.hw.up /\ i \notin last'.hw.down) =>
                    /\ Len(sent) = 0
                    /\ after = before
                    /\ switch_color_buffer'[encoder_bank][i]
                         = switch_color_buffer[encoder_bank][i]]_vars

\* control 0 was pressed, released and pressed again: the second press
\* sent 0
C27_Witness ==
  /\ last.op = "process_encoder_input"
  /\ last.hw = PressInput(0)
  /\ steps = 3
  /\ enc_switch_midi_state[encoder_bank][0] = 0
  /\ Len(SwitchCcs(midi_out, 0)) = 1
  /\ SwitchCcs(midi_out, 0)[1].value = 0

\* C37: while a control's colour-override flag is set, a local switch-down
\* toggle changes its stored switch state and emits MIDI but leaves its
\* switch_color_buffer entry unchanged; when the flag is clear the entry
\* becomes the control's active colour if the new state is non-zero and its
\* inactive colour otherwise.
C37_OverrideKeepsColourOnToggle ==
  [][last'.op = "process_encoder_input" =>
       \A i \in Positions :
         LET c == 16 * encoder_bank + i
             cfg == encoder_settings[c]
             before == enc_switch_midi_state[encoder_bank][i]
             after == enc_switch_midi_state'[encoder_bank][i]
         IN  (cfg.switch_action_type = CC_TOGGLE /\ i \in last'.hw.down) =>
               /\ after # before
               /\ Len(SwitchCcs(midi_out', c)) > 0
               /\ switch_color_buffer'[encoder_bank][i] =
                    IF i \in switch_color_overide[encoder_bank]
                    THEN switch_color_buffer[encoder_bank][i]
                    ELSE IF after # 0 THEN cfg.active_color
                         ELSE cfg.inactive_color]_vars

\* control 0 was pressed while its override flag was set: the press cleared
\* the stored state and sent it, and the entry still shows the active colour
C37_Witness ==
  /\ last.op = "process_encoder_input"
  /\ last.hw = PressInput(0)
  /\ 0 \in switch_color_overide[encoder_bank]
  /\ enc_switch_midi_state[encoder_bank][0] = 0
  /\ Len(SwitchCcs(midi_out, 0)) = 1
  /\ switch_color_buffer[encoder_bank][0] = encoder_settings[0].active_color
  /\ encoder_settings[0].active_color # encoder_settings[0].inactive_color

\* the messages the encoder section of process_encoder_input sent for
\* control c
EncoderMessages(out, c) ==
  SelectSeq(out, LAMBDA m : m.origin = <<"encoder", c>>)

\* C31: process_encoder_input emits an encoder MIDI message for a control
\* only if the control's MIDI value changed in that cycle: a non-zero tick
\* that leaves the raw value, or the 7-bit value sent, unchanged emits
\* nothing.
C31_EncoderMidiOnlyOnChange ==
  [][last'.op = "process_encoder_input" =>
       \A i \in Positions :
         LET v == get_virtual_encoder_id(encoder_bank, i)
         IN  (raw_encoder_value'[v] \div 128 = raw_encoder_value[v] \div 128)
               => Len(EncoderMessages(midi_out', v % BANKED_ENCODERS)) = 0
    ]_vars

(***************************************************************************)
(* Claims about bank changes (checked under SpecBank).                     *)
(***************************************************************************)
\* C22: encoder_bank changes only in change_encoder_bank, where it becomes
\* the requested bank; refresh_display leaves it equal, and so do
\* process_encoder_input, update_encoder_display, run_shift_mode,
\* process_element_midi and save_encoder_config.
C22_BankChangesOnlyOnRequest ==
  [][/\ last'.op = "change_encoder_bank" => encoder_bank' = last'.new_bank
     /\ last'.op # "change_encoder_bank" => encoder_bank' = encoder_bank]_vars

\* a bank change away from bank 0 was followed by a handler that is not a
\* bank change
C22_Witness ==
  /\ encoder_bank # 0
  /\ last.op \in {"process_encoder_input", "update_encoder_display",
                  "run_shift_mode", "process_element_midi",
                  "save_encoder_config", "refresh_display"}

\* control c sends relative-encoder messages
IsRelative(c) == encoder_settings[c].encoder_midi_type = SEND_REL_ENC

\* C23: change_encoder_bank copies no value into or out of a control that
\* sends relative-encoder messages: the raw value of every such control, in
\* every bank, is the same after the change as before it.
C23_RelativeControlsKeepValue ==
  [][RunsBankChange(last'.op) =>
       \A c \in BankedIds :
         IsRelative(c) => raw_encoder_value'[c] = raw_encoder_value[c]]_vars

\* a bank change left a relative control of the old bank with a value other
\* than that of a relative control of another bank with the same number and
\* channel
C23_Witness ==
  /\ RunsBankChange(last.op)
  /\ \E c \in BankedIds, d \in BankedIds :
       /\ BankOf(c) = last.old_bank
       /\ BankOf(d) # last.old_bank
       /\ IsRelative(c)
       /\ IsRelative(d)
       /\ encoder_settings[c].encoder_midi_number
            = encoder_settings[d].encoder_midi_number
       /\ encoder_settings[c].encoder_midi_channel
            = encoder_settings[d].encoder_midi_channel
       /\ raw_encoder_value[c] # raw_encoder_value[d]

(***************************************************************************)
(* Claims about inbound feedback (checked under SpecFeedback).             *)
(***************************************************************************)
\* the banked controls whose encoder mapping (channel, number, kind) an
\* inbound message matches
MatchingControls(msg) ==
  {c \in BankedIds :
     /\ encoder_settings[c].encoder_midi_number = msg.number
     /\ encoder_settings[c].encoder_midi_channel = msg.channel
     /\ IF msg.type = SEND_CC
        THEN encoder_settings[c].encoder_midi_type \in {SEND_CC, SEND_REL_ENC}
        ELSE encoder_settings[c].encoder_midi_type = SEND_NOTE}

\* an inbound message on a channel other than the system channel arrives
MappedFeedbackArrives ==
  /\ last'.op = "process_element_midi"
  /\ last'.msg.channel # global_midi_system_channel

\* C32: an inbound feedback message is applied to every control in every
\* bank whose mapping matches it, not only to the first match or to the
\* current bank: after one matching CC with value v, every matching rotary
\* control outside the current bank has raw value v << 7 and indicator
\* entry v.
C32_FeedbackReachesEveryBank ==
  [][(MappedFeedbackArrives /\ last'.msg.type = SEND_CC) =>
       \A c \in MatchingControls(last'.msg) :
         BankOf(c) # encoder_bank =>
           /\ raw_encoder_value'[c] = last'.msg.value * 128
           /\ indicator_value_buffer'[BankOf(c)][c % 16] = last'.msg.value
    ]_vars

\* a CC has reached two controls of two banks other than the current one,
\* neither of them the first control that matches
C32_Witness ==
  /\ last.op = "process_element_midi"
  /\ last.msg.type = SEND_CC
  /\ last.msg.value > 0
  /\ encoder_bank = 1
  /\ \E c \in MatchingControls(last.msg), d \in MatchingControls(last.msg) :
       /\ BankOf(c) = 2 /\ BankOf(d) = 3
       /\ \E f \in MatchingControls(last.msg) : f < c
       /\ raw_encoder_value[c] = last.msg.value * 128
       /\ raw_encoder_value[d] = last.msg.value * 128
       /\ indicator_value_buffer[2][c % 16] = last.msg.value
       /\ indicator_value_buffer[3][d % 16] = last.msg.value

\* C33: inbound indicator feedback for a control of the current bank whose
\* encoder is being turned and whose kind is not relative-encoder changes
\* neither the control's raw value nor its indicator entry; for an inactive
\* or relative control it sets raw = value << 7 and indicator = value.
C33_FeedbackSparesActiveControls ==
  [][MappedFeedbackArrives =>
       \A c \in MatchingControls(last'.msg) :
         BankOf(c) = encoder_bank =>
           IF /\ c % 16 \in last'.active
              /\ encoder_settings[c].encoder_midi_type # SEND_REL_ENC
           THEN /\ raw_encoder_value'[c] = raw_encoder_value[c]
                /\ indicator_value_buffer'[encoder_bank][c % 16] =
                     indicator_value_buffer[encoder_bank][c % 16]
           ELSE /\ raw_encoder_value'[c] = last'.msg.value * 128
                /\ indicator_value_buffer'[encoder_bank][c % 16] =
                     last'.msg.value
    ]_vars

\* feedback has found a control of the current bank turning and left its
\* value, which differs from the value sent, alone
SparedActiveControl ==
  \E c \in MatchingControls(last.msg) :
    /\ BankOf(c) = encoder_bank
    /\ c % 16 \in last.active
    /\ encoder_settings[c].encoder_midi_type # SEND_REL_ENC
    /\ raw_encoder_value[c] # last.msg.value * 128

\* feedback has overwritten a relative control of the current bank while it
\* was turning
WrittenRelativeControl ==
  \E c \in MatchingControls(last.msg) :
    /\ BankOf(c) = encoder_bank
    /\ c % 16 \in last.active
    /\ encoder_settings[c].encoder_midi_type = SEND_REL_ENC
    /\ raw_encoder_value[c] = last.msg.value * 128
    /\ indicator_value_buffer[encoder_bank][c % 16] = last.msg.value

C33_Witness ==
  /\ last.op = "process_element_midi"
  /\ \/ SparedActiveControl /\ encoder_bank = 1
     \/ WrittenRelativeControl

\* the banked controls whose switch mapping (channel, number) an inbound
\* message matches
MatchingSwitches(msg) ==
  {c \in BankedIds :
     /\ encoder_settings[c].switch_midi_number = msg.number
     /\ encoder_settings[c].switch_midi_channel = msg.channel}

\* C36: an inbound switch-feedback CC with value 0 for control e of bank b
\* sets switch_color_buffer[b][e] to the inactive colour configured for
\* that same banked control (bank b, position e), for every bank b in 0..3.
C36_ZeroFeedbackShowsOwnInactiveColour ==
  [][(/\ MappedFeedbackArrives
      /\ last'.msg.type = SEND_CC
      /\ last'.msg.value = 0) =>
       \A c \in MatchingSwitches(last'.msg) :
         switch_color_buffer'[BankOf(c)][c % 16] =
           encoder_settings[c].inactive_color
    ]_vars

(***************************************************************************)
(* Claims about repaints of changed values (checked under SpecRepaint).    *)
(***************************************************************************)
\* the scheduler serves one position per invocation in turn and no other
\* handler moves it, so that it serves position p at the latest at the 16th
\* invocation that follows a change
ServedInTurn ==
  IF last'.op = "update_encoder_display"
  THEN /\ last'.idx = display_idx
       /\ display_idx' = (display_idx + 1) % PHYSICAL_ENCODERS
       /\ indicator_changed' = indicator_changed \ {display_idx}
       /\ color_changed' = color_changed \ {display_idx}
  ELSE display_idx' = display_idx

\* the invocation that serves position idx issues the indicator repaint with
\* the value of the buffer
PaintsIndicator(idx) ==
  \E k \in 1 .. Len(display_out') :
    /\ display_out'[k].call = "set_encoder_indicator"
    /\ display_out'[k].idx = idx
    /\ display_out'[k].value = indicator_value_buffer'[encoder_bank'][idx]

PaintsColour(idx) ==
  \E k \in 1 .. Len(display_out') :
    /\ display_out'[k].call = "set_encoder_rgb"
    /\ display_out'[k].idx = idx
    /\ display_out'[k].color = switch_color_buffer'[encoder_bank'][idx]

\* the cached previous values of position idx equal the buffer values
\* after the invocation
CachesFollow(idx) ==
  /\ prevIndicatorValue'[idx] = indicator_value_buffer'[encoder_bank'][idx]
  /\ prevSwitchColorValue'[idx] = switch_color_buffer'[encoder_bank'][idx]

\* C35, as the specification states it: if the indicator value or switch
\* colour of a position of the current bank changes and then stays stable,
\* then within the next 16 invocations of update_encoder_display the
\* corresponding repaint call (set_encoder_indicator or set_encoder_rgb) is
\* issued with the new value, and afterwards the cached previous value
\* equals the buffer value.
C35_ChangeIsRepainted ==
  [][/\ ServedInTurn
     /\ last'.op = "update_encoder_display" =>
          /\ display_idx \in indicator_changed => PaintsIndicator(display_idx)
          /\ display_idx \in color_changed => PaintsColour(display_idx)
          /\ CachesFollow(display_idx)
    ]_vars

\* C35, amended: the repaint call is issued if the changed value differs
\* from the cached previous value of the position; a value that has
\* returned to the cached value by the time the position is served is not
\* repainted.  The caches equal the buffer values afterwards in either case.
C35_ChangeFromCachedIsRepainted ==
  [][/\ ServedInTurn
     /\ last'.op = "update_encoder_display" =>
          /\ (/\ display_idx \in indicator_changed
              /\ indicator_value_buffer[encoder_bank][display_idx]
                   # prevIndicatorValue[display_idx])
               => PaintsIndicator(display_idx)
          /\ (/\ display_idx \in color_changed
              /\ switch_color_buffer[encoder_bank][display_idx]
                   # prevSwitchColorValue[display_idx])
               => PaintsColour(display_idx)
          /\ CachesFollow(display_idx)
    ]_vars

\* feedback changed the indicator value of position 0 of bank 1 after the
\* scheduler had painted another value there; the scheduler has served the
\* position since, repainted the indicator with the new value and cached it
C35_Witness ==
  /\ last.op = "update_encoder_display"
  /\ last.idx = 0
  /\ encoder_bank = 1
  /\ indicator_value_buffer[encoder_bank][0] = 5
  /\ last.previous.indicator \notin {5, UINT8_MAX}
  /\ prevIndicatorValue[0] = 5
  /\ \E k \in 1 .. Len(display_out) :
       /\ display_out[k].call = "set_encoder_indicator"
       /\ display_out[k].idx = 0
       /\ display_out[k].value = 5
  /\ 0 \notin indicator_changed

(***************************************************************************)
(* Claims about the factory reset (checked under SpecFactory).             *)
(***************************************************************************)
\* the record of control e of bank b in storage ee carries number 16 b + e
\* twice, the super-knob flag of def in bit 7 of byte 7, and the colours
\* def gives bank b
FactoryRecord(ee, def, b, e) ==
  LET rec == ReadBuffer(ee, RecordAddress(b, e), 8)
  IN  /\ rec[1] = 16 * b + e
      /\ rec[7] % 128 = 16 * b + e
      /\ rec[7] \div 128 = def.is_super_knob % 2
      /\ rec[2] = def.active_colors[b]
      /\ rec[3] = def.inactive_colors[b]

\* C25: after factory_reset_encoder_config the stored record of control e
\* of bank b has switch and encoder MIDI number 16 b + e, with the flag in
\* bit 7 of byte 7 as the defaults give it, and bank b's default colours;
\* get_encoder_config reads those numbers and colours back.
C25_FactoryNumbersAndColours ==
  [][/\ last'.op = "factory_reset_encoder_config" =>
          \A b \in Banks, e \in Positions :
            FactoryRecord(eeprom', last'.def, b, e)
     /\ (/\ last.op = "factory_reset_encoder_config"
         /\ last'.op = "get_encoder_config") =>
          /\ cfg_out'.switch_midi_number = 16 * last'.bank + last'.encoder
          /\ cfg_out'.encoder_midi_number = 16 * last'.bank + last'.encoder
          /\ cfg_out'.active_color = last.def.active_colors[last'.bank]
          /\ cfg_out'.inactive_color
               = last.def.inactive_colors[last'.bank]]_vars

\* the reset replaced a record the host had saved, in the last bank, and
\* set the flag in bit 7 of byte 7 beside the highest number
C25_Witness ==
  /\ last.op = "factory_reset_encoder_config"
  /\ last.def.is_super_knob = 1
  /\ encoder_settings[BANKED_ENCODERS - 1] = HighCfg
  /\ eeprom[RecordAddress(NUM_BANKS - 1, PHYSICAL_ENCODERS - 1) + 7]
       = 128 + BANKED_ENCODERS - 1
  /\ eeprom[RecordAddress(NUM_BANKS - 1, PHYSICAL_ENCODERS - 1) + 1]
       = BANKED_ENCODERS - 1

(***************************************************************************)
(* Claims about the configuration codec (checked under SpecCodec).         *)
(***************************************************************************)
\* C21: every storage read and every page write of encoders_init,
\* get_encoder_config, save_encoder_config and
\* factory_reset_encoder_config runs with interrupts disabled.
C21_StorageAccessWithInterruptsOff ==
  \A k \in 1 .. Len(nvm_out) : nvm_out[k].irq_disabled

\* the record bytes of the control a save addressed, as stored afterwards
SavedRecord == ReadBuffer(eeprom, RecordAddress(last.bank, last.encoder), 8)

\* the 4-bit slot in the high half of a stored byte
ChannelSlot(byte) == byte \div 16

\* C24: save_encoder_config stores every channel field that is not skipped
\* (switch channel in byte 0, shifted-encoder channel in byte 5, encoder
\* channel in byte 6) as the supplied value minus 1 in its 4-bit slot, and
\* the switch and encoder MIDI numbers as supplied.
C24_ChannelsStoredZeroBased ==
  last.op = "save_encoder_config" =>
    /\ last.cfg.switch_midi_channel \in 1 .. 16 =>
         ChannelSlot(SavedRecord[0]) = last.cfg.switch_midi_channel - 1
    /\ last.cfg.encoder_shift_midi_channel \in 1 .. 16 =>
         ChannelSlot(SavedRecord[5]) = last.cfg.encoder_shift_midi_channel - 1
    /\ last.cfg.encoder_midi_channel \in 1 .. 16 =>
         ChannelSlot(SavedRecord[6]) = last.cfg.encoder_midi_channel - 1
    /\ last.cfg.switch_midi_number < 128 =>
         SavedRecord[1] = last.cfg.switch_midi_number
    /\ last.cfg.encoder_midi_number < 128 =>
         SavedRecord[7] % 128 = last.cfg.encoder_midi_number

\* C24 as the code has it: the switch channel and the encoder channel are
\* stored as the supplied value minus 1 (modulo 16) in their 4-bit slots,
\* the shifted-encoder channel is stored as supplied (modulo 16), and the
\* switch and encoder MIDI numbers are stored as supplied.
C24_ShiftChannelStoredAsSupplied ==
  last.op = "save_encoder_config" =>
    /\ last.cfg.switch_midi_channel < 128 =>
         ChannelSlot(SavedRecord[0]) = (last.cfg.switch_midi_channel + 15) % 16
    /\ last.cfg.encoder_shift_midi_channel < 128 =>
         ChannelSlot(SavedRecord[5]) = last.cfg.encoder_shift_midi_channel % 16
    /\ last.cfg.encoder_midi_channel < 128 =>
         ChannelSlot(SavedRecord[6])
           = (last.cfg.encoder_midi_channel + 15) % 16
    /\ last.cfg.switch_midi_number < 128 =>
         SavedRecord[1] = last.cfg.switch_midi_number
    /\ last.cfg.encoder_midi_number < 128 =>
         SavedRecord[7] % 128 = last.cfg.encoder_midi_number

\* a save with switch channel 16 and shifted-encoder channel 15 left 15 in
\* both slots
C24_Witness ==
  /\ last.op = "save_encoder_config"
  /\ last.cfg.switch_midi_channel = 16
  /\ last.cfg.encoder_shift_midi_channel = 15
  /\ ChannelSlot(SavedRecord[0]) = 15
  /\ ChannelSlot(SavedRecord[5]) = 15

\* C2: a full record (every field below 0x80 and inside its range) that is
\* saved and then read back for the same bank and control comes back with
\* every field equal to the value saved.
C2_RoundTripFullRecord ==
  (/\ last.op = "get_encoder_config"
   /\ last.after_save
   /\ IsFullCfg(last.cfg))
  => \A f \in CfgFields : cfg_out[f] = last.cfg[f]

\* C3: after save_encoder_config with a partial update, every field that
\* carried the skip sentinel still holds, in the RAM table entry of that
\* control, the value it held before the call.
C3_SkippedFieldsKeptInRam ==
  [][(last'.op = "save_encoder_config")
     => \A f \in CfgFields :
          last'.cfg[f] >= 128
          => encoder_settings'[get_virtual_encoder_id(last'.bank,
                                                      last'.encoder)][f]
             = encoder_settings[get_virtual_encoder_id(last'.bank,
                                                       last'.encoder)][f]]_vars

\* C4: save_encoder_config with every field set to the skip sentinel writes
\* back a page whose bytes all equal the bytes storage held before the call.
C4_AllSkipWritesSameBytes ==
  [][(/\ last'.op = "save_encoder_config"
      /\ IsAllSkipCfg(last'.cfg))
     => /\ Len(nvm_out') = 2
        /\ nvm_out'[2].call = "write_page"
        /\ \A k \in 0 .. EEPROM_PAGE_SIZE - 1 :
             nvm_out'[2].bytes[k]
             = eeprom[nvm_out'[2].page * EEPROM_PAGE_SIZE + k]
        /\ eeprom' = eeprom]_vars

C4_Witness ==
  /\ last.op = "save_encoder_config"
  /\ IsAllSkipCfg(last.cfg)
  /\ Len(nvm_out) = 2
  /\ nvm_out[2].call = "write_page"
  /\ \E k \in 0 .. EEPROM_PAGE_SIZE - 1 : nvm_out[2].bytes[k] >= 128

\* C5: save_encoder_config for control e of bank b reads and writes the same
\* storage page (page address = page index * 32), the page that holds the
\* record of (b, e), and leaves every stored byte outside that 8-byte record
\* (the three sibling records of the page and every other page) unchanged.
C5_SavePreservesSiblings ==
  [][(last'.op = "save_encoder_config")
     => LET rec == RecordAddress(last'.bank, last'.encoder)
        IN  /\ Len(nvm_out') = 2
            /\ nvm_out'[1].call = "read"
            /\ nvm_out'[1].len = EEPROM_PAGE_SIZE
            /\ nvm_out'[2].call = "write_page"
            /\ nvm_out'[1].addr = nvm_out'[2].page * 32
            /\ nvm_out'[1].addr <= rec
            /\ rec + ENC_EE_SIZE <= nvm_out'[1].addr + EEPROM_PAGE_SIZE
            /\ \A a \in EepromAddrs :
                 (a < rec \/ a >= rec + ENC_EE_SIZE) => eeprom'[a] = eeprom[a]]_vars

C5_Witness ==
  /\ last.op = "save_encoder_config"
  /\ IsFullCfg(last.cfg)
  /\ last.bank = NUM_BANKS - 1
  /\ last.encoder % 4 = 2
  /\ eeprom[RecordAddress(last.bank, last.encoder) + 1]
       = last.cfg.switch_midi_number
  /\ eeprom[RecordAddress(last.bank, last.encoder) + 1]
       # eeprom[RecordAddress(last.bank, last.encoder) + 1 + ENC_EE_SIZE]

=============================================================================
